---- MODULE Spec2Model ----
(***************************************************************************)
(* PCFactory monitors: the category monitor (monitor.py, run_monitor) and  *)
(* the delivery monitor (delivery_monitor.py, run_delivery_monitor).       *)
(* Both fan a list of targets out to a ThreadPoolExecutor, probe each      *)
(* target with one or two HTTP calls, collect the futures with             *)
(* as_completed and reduce the collected results to a summary.             *)
(* Further specifications of this module cover the retrying HTTP adapter   *)
(* of create_session (RetrySpec), walk_links (WalkSpec),                   *)
(* compare_categories (DiffSpec), main() of the category and delivery      *)
(* monitors with their files and the history files of the other monitors  *)
(* (MainSpec), consecutive runs of the category monitor (RunsSpec), the   *)
(* summary of the delivery monitor as a function (SummarySpec), the run    *)
(* engine inside main() (PipelineSpec), the cards of the category         *)
(* dashboard (CardsSpec), the payment and login dashboards with their      *)
(* histories (DashboardSpec), and the run engine on tables with repeated   *)
(* comuna names (OrderSpec).                                               *)
(* Each specification moves its own variables and leaves the others at    *)
(* Idle.                                                                   *)
(***************************************************************************)
EXTENDS Integers, Sequences, FiniteSets, TLC

\* Largest number of enumerated targets (links / comunas) of a run.
MaxTargets == 2
\* Largest value of the workers parameter (max_workers of the pool).
MaxWorkers == 2

VARIABLES
    monitor,     \* which program runs: "category" or "delivery"
    workers,     \* the workers parameter of the run
    targets,     \* category: links (walk_links output); delivery: tasks
    pc,          \* position of the calling thread
    queue,       \* work queue of the executor (indices into targets)
    numThreads,  \* worker threads the executor has started
    st,          \* per task: where its future / worker is
    calls,       \* per task: the HTTP responses its probe has received
    fut,         \* per task: the outcome stored in its future
    yielded,     \* futures as_completed has already yielded
    results,     \* resultados (category) / results (delivery)
    report,      \* the returned report (summary), once the run returned
    adapter,     \* RetrySpec: one session.get / session.post in progress
    walk,        \* WalkSpec: the locals of walk_links
    disk,        \* MainSpec: the files of the output directory
    proc,        \* MainSpec: the locals of main() and the process state
    hlog         \* MainSpec: a history file and the run that updates it

\* The variables of the run engine (Spec, FairSpec) and the others.
engineVars == <<monitor, workers, targets, pc, queue, numThreads, st, calls,
                fut, yielded, results, report>>
otherVars == <<adapter, walk, disk, proc, hlog>>

vars == <<monitor, workers, targets, pc, queue, numThreads, st, calls, fut,
          yielded, results, report, adapter, walk, disk, proc, hlog>>

\* The value of a variable its specification does not use.
Idle == [pc |-> "idle"]

----------------------------------------------------------------------------
\* Python values

\* None is the empty tuple and a present value v is <<v>>.
None == <<>>
Some(v) == <<v>>

\* dict.get(k): None when the key is missing.
Get(r, k) == IF k \in DOMAIN r THEN r[k] ELSE None

\* The outcome of a call: a returned value or a raised exception.
Return(v) == [exc |-> "", value |-> Some(v)]
Raise(e) == [exc |-> e, value |-> None]

\* What session.get / session.post hands back after the adapter's retries:
\* a response (status, body) or a raised requests.RequestException.
Response(status, body) == [exc |-> "", status |-> status, body |-> body]
Raised(e) == [exc |-> e, status |-> 0, body |-> ""]

\* requests.Response.ok: raise_for_status() would not raise.
RespOk(resp) == ~(resp.status >= 400 /\ resp.status < 600)

----------------------------------------------------------------------------
\* Category monitor: probe, check_products, probe_with_products

\* Outcomes of session.get(url) on the category page.
UrlResponses ==
    { Response(200, "html"), Response(404, "html"),
      Raised("ConnectionError") }

\* Outcomes of session.get on the products API.  Bodies of a 2xx answer:
\*   total_pos     {"content": {"pageable": {"totalElements": 5}}}
\*   total_zero    {"content": {"pageable": {"totalElements": 0}}}
\*   content_null  {"content": null}
\*   not_json      a body json() cannot decode (an empty body included)
ProductsResponses ==
    { Response(200, "total_pos"), Response(200, "total_zero"),
      Response(200, "content_null"), Response(200, "not_json"),
      Response(429, ""), Response(503, ""),
      Raised("ReadTimeout") }

\* pageable.get("totalElements", 0) of a decodable body.
TotalElements(body) == IF body = "total_pos" THEN 5 ELSE 0

\* probe: the URL check.  Only requests.RequestException is caught.
probe(resp) ==
    IF resp.exc # ""
    THEN [status_code |-> None, ok |-> FALSE, error |-> resp.exc]
    ELSE [status_code |-> Some(resp.status), ok |-> RespOk(resp),
          error |-> ""]

ProductsUnknown(status, msg) ==
    [total_productos |-> None, tiene_productos |-> None,
     productos_api_status |-> status, productos_error |-> msg]

\* check_products.  jsonErrIsRequestException: resp.json() raises
\* requests.exceptions.JSONDecodeError, a RequestException, in requests
\* >= 2.27 and a plain ValueError before; the installed version decides
\* whether the except clause catches it.
check_products(resp, jsonErrIsRequestException) ==
    IF resp.exc # ""
    THEN Return(ProductsUnknown(None, resp.exc))
    ELSE IF RespOk(resp)
    THEN CASE resp.body = "content_null" -> Raise("AttributeError")
           [] resp.body = "not_json" ->
                IF jsonErrIsRequestException
                THEN Return(ProductsUnknown(None, "JSONDecodeError"))
                ELSE Raise("JSONDecodeError")
           [] OTHER ->
                Return([total_productos |-> Some(TotalElements(resp.body)),
                        tiene_productos |->
                            Some(TotalElements(resp.body) > 0),
                        productos_api_status |-> Some(resp.status),
                        productos_error |-> ""])
    ELSE Return(ProductsUnknown(Some(resp.status),
                                "HTTP " \o ToString(resp.status)))

\* item.get("id") is truthy.
HasId(item) == item.id # None

\* probe_with_products, given the responses of its one or two calls
\* (prodResp is None when the item has no id and the call is skipped).
probe_with_products(item, urlResp, prodResp, jsonErrIsRequestException) ==
    LET url_result == probe(urlResp)
        result == [id |-> item.id, link |-> item.link] @@ url_result
    IN  IF HasId(item)
        THEN LET prod == check_products(prodResp[1],
                                        jsonErrIsRequestException)
             IN  IF prod.exc # ""
                 THEN Raise(prod.exc)
                 ELSE Return(result @@ prod.value[1])
        ELSE Return(result @@ ProductsUnknown(None, "ID no disponible"))

----------------------------------------------------------------------------
\* Delivery monitor: call_endpoint, parse_payload, get_costo_despacho,
\* check_comuna

\* Outcomes of session.get on the delivery endpoint.  Bodies:
\*   tarifas         {"codigo": 0, "resultado": {"tarifas": [{...}]}}
\*   codigo_err      {"codigo": 1, ...}
\*   ""              no content
\*   not_json        content json() cannot decode
\*   resultado_list  {"codigo": 0, "resultado": [1]}
AvailResponses ==
    { Response(200, "tarifas"), Response(200, "codigo_err"),
      Response(200, ""), Response(200, "not_json"),
      Response(200, "resultado_list"),
      Response(429, ""), Response(503, ""), Response(503, "tarifas"),
      Raised("ConnectionError") }

\* Outcomes of session.post on the cost endpoint.  Bodies:
\*   costo_pos    {"opciones": [{"costo": 3990}]}
\*   costo_0      {"opciones": [{"costo": 0}]}
\*   no_opciones  {"opciones": []}
CostoResponses ==
    { Response(200, "costo_pos"), Response(200, "costo_0"),
      Response(200, "no_opciones"), Response(500, ""),
      Raised("ReadTimeout") }

\* call_endpoint: (status, payload); every exception gives (0, None).
\* The payload is the decoded body, None when there is no content.
call_endpoint(resp) ==
    IF resp.exc # "" \/ resp.body = "not_json"
    THEN [http_code |-> 0, payload |-> None]
    ELSE [http_code |-> resp.status,
          payload |-> IF resp.body = "" THEN None ELSE Some(resp.body)]

\* parse_payload(payload or {}): (estado, fecha, dias, transporte), or the
\* AttributeError of .get on a resultado that is not a dict.
parse_payload(payload) ==
    IF payload = None
    THEN Return([estado |-> "No disponible", dias_entrega |-> None])
    ELSE CASE payload[1] = "tarifas" ->
                Return([estado |-> "Disponible", dias_entrega |-> Some(2)])
           [] payload[1] = "resultado_list" -> Raise("AttributeError")
           [] OTHER ->
                Return([estado |-> "No disponible", dias_entrega |-> None])

\* get_costo_despacho: (costo, gratis); every failure gives (None, False).
get_costo_despacho(resp) ==
    IF resp.exc # "" \/ resp.status # 200
    THEN [costo |-> None, gratis |-> FALSE]
    ELSE CASE resp.body = "costo_pos" ->
                [costo |-> Some(3990), gratis |-> FALSE]
           [] resp.body = "costo_0" -> [costo |-> Some(0), gratis |-> TRUE]
           [] OTHER -> [costo |-> None, gratis |-> FALSE]

\* REGIONES.get(id_region): the two regions the model uses are both keys.
REGIONES(id_region) == IF id_region = 13 THEN "Metropolitana"
                       ELSE "Valparaiso"

\* NeedsCosto with the guard of line 227 left out.
NeedsCostoAlways(estado) == TRUE

\* check_comuna line 227: the second call is made iff this holds.
NeedsCosto(estado) == estado = "Disponible"

\* check_comuna, given the responses of its one or two calls (costoResp is
\* None when the price call was not made).
check_comuna(task, availResp, costoResp) ==
    LET ep == call_endpoint(availResp)
        parsed == parse_payload(ep.payload)
    IN  IF parsed.exc # ""
        THEN Raise(parsed.exc)
        ELSE LET p == parsed.value[1]
                 c == IF NeedsCosto(p.estado) /\ costoResp # None
                      THEN get_costo_despacho(costoResp[1])
                      ELSE [costo |-> None, gratis |-> FALSE]
             IN  Return([id_comuna |-> task.id_comuna,
                         comuna |-> task.comuna,
                         id_region |-> task.id_region,
                         region |-> REGIONES(task.id_region),
                         estado |-> p.estado,
                         dias_entrega |-> p.dias_entrega,
                         precio_despacho |-> c.costo,
                         despacho_gratis |-> c.gratis,
                         http_code |-> ep.http_code])

----------------------------------------------------------------------------
\* Aggregation

\* round(100 * num / den, 1), in tenths of a percent (den > 0).
Pct(num, den) == (2 * 1000 * num + den) \div (2 * den)

\* a truthy r.get("tiene_productos")
ConProductos(r) == Get(r, "tiene_productos") = Some(TRUE)
\* r.get("tiene_productos") == False
SinProductos(r) == Get(r, "tiene_productos") = Some(FALSE)
UrlOk(r) == r.ok

\* run_monitor after the pool: the summary of resultados.
CategorySummary(resultados) ==
    LET urls_ok ==
            Cardinality({i \in DOMAIN resultados : UrlOk(resultados[i])})
        con_productos ==
            Cardinality({i \in DOMAIN resultados :
                            ConProductos(resultados[i])})
    IN  [total_categorias |-> Len(resultados),
         urls_ok |-> urls_ok,
         urls_error |-> Len(resultados) - urls_ok,
         con_productos |-> con_productos,
         sin_productos |->
             Cardinality({i \in DOMAIN resultados :
                             SinProductos(resultados[i])}),
         health_score |-> IF Len(resultados) > 0
                          THEN Pct(con_productos, Len(resultados))
                          ELSE 0]

\* The sort key (x.get("id_region", 0), x.get("comuna", "")); comuna names
\* are represented by their rank in alphabetical order.
KeyLess(a, b) ==
    \/ a.id_region < b.id_region
    \/ a.id_region = b.id_region /\ a.comuna < b.comuna

\* The place of seq[i] after a stable sort: behind every element with a
\* smaller key and every earlier element with an equal key.
SortedPos(seq, i) ==
    1 + Cardinality({j \in DOMAIN seq :
                        \/ KeyLess(seq[j], seq[i])
                        \/ ~KeyLess(seq[i], seq[j]) /\ j < i})

\* A sort that leaves the list as it is.
SortResultsKeeps(seq) == seq

\* results.sort(key=...): list.sort is stable.
SortResults(seq) ==
    [k \in DOMAIN seq |->
        seq[CHOOSE i \in DOMAIN seq : SortedPos(seq, i) = k]]

IsDisponible(r) == r.estado = "Disponible"
IsNoDisponible(r) == r.estado = "No disponible"
\* errores that counts nothing.
IsErrorNever(r) == FALSE

IsError(r) == r.estado = "Error"
ConPrecio(r) == IsDisponible(r) /\ Get(r, "precio_despacho") # None
EsGratis(r) == IsDisponible(r) /\ Get(r, "despacho_gratis") = TRUE
\* precios that keeps the prices of 0.
PrecioPresente(r) == ConPrecio(r)

PrecioPositivo(r) == ConPrecio(r) /\ r.precio_despacho[1] > 0

\* sum(f[1], ..., f[n])
RECURSIVE SumTo(_, _)
SumTo(f, n) == IF n = 0 THEN 0 ELSE f[n] + SumTo(f, n - 1)

\* The sum of f over the indices in S, a subset of f's domain 1..n.
SumOver(S, f) ==
    SumTo([i \in DOMAIN f |-> IF i \in S THEN f[i] ELSE 0],
          Cardinality(DOMAIN f))

Min(S) == CHOOSE x \in S : \A y \in S : x <= y
Max(S) == CHOOSE x \in S : \A y \in S : x >= y

\* round(num / den), den > 0: to the nearest integer, a half to the even
\* one.
RoundDiv(num, den) ==
    LET q == num \div den
        twice == 2 * (num % den)
    IN  IF twice < den THEN q
        ELSE IF twice > den THEN q + 1
        ELSE IF q % 2 = 0 THEN q ELSE q + 1

\* round(num / den, 1) in tenths (den > 0)
RoundTenths(num, den) == (2 * 10 * num + den) \div (2 * den)

\* The indices of res that satisfy a test, given as the test's values.
Where(flags) == {i \in DOMAIN flags : flags[i]}

\* dias_entrega / precio_despacho of the counted results, 0 elsewhere.
DiasOf(res) ==
    [i \in DOMAIN res |->
        IF Get(res[i], "dias_entrega") # None THEN res[i].dias_entrega[1]
        ELSE 0]
PrecioOf(res) ==
    [i \in DOMAIN res |->
        IF Get(res[i], "precio_despacho") # None
        THEN res[i].precio_despacho[1] ELSE 0]

\* run_delivery_monitor, the per-region loop: stats_por_region[reg_id]
RegionStats(res, reg_id) ==
    LET inReg == Where([i \in DOMAIN res |-> res[i].id_region = reg_id])
        disp == {i \in inReg : IsDisponible(res[i])}
        conDias == {i \in disp : Get(res[i], "dias_entrega") # None}
        conPrecio == {i \in disp : PrecioPositivo(res[i])}
    IN  [total |-> Cardinality(inReg),
         disponibles |-> Cardinality(disp),
         no_disponibles |->
             Cardinality({i \in inReg : IsNoDisponible(res[i])}),
         errores |->
             Cardinality({i \in inReg : ~IsDisponible(res[i])
                                        /\ ~IsNoDisponible(res[i])}),
         dias_sum |-> SumOver(conDias, DiasOf(res)),
         dias_count |-> Cardinality(conDias),
         precio_sum |-> SumOver(conPrecio, PrecioOf(res)),
         precio_count |-> Cardinality(conPrecio),
         gratis_count |-> Cardinality({i \in disp : EsGratis(res[i])}),
         cobertura_pct |-> IF Cardinality(inReg) > 0
                           THEN Pct(Cardinality(disp), Cardinality(inReg))
                           ELSE 0,
         promedio_dias |-> IF conDias # {}
                           THEN RoundTenths(SumOver(conDias, DiasOf(res)),
                                            Cardinality(conDias))
                           ELSE 0,
         precio_promedio |-> IF conPrecio # {}
                             THEN RoundDiv(SumOver(conPrecio, PrecioOf(res)),
                                           Cardinality(conPrecio))
                             ELSE 0]

\* run_delivery_monitor after the sort: the global summary.
DeliverySummary(res) ==
    LET disp == Where([i \in DOMAIN res |-> IsDisponible(res[i])])
        conDias == {i \in disp : Get(res[i], "dias_entrega") # None}
        conPrecio == {i \in disp : PrecioPositivo(res[i])}
        precios == {res[i].precio_despacho[1] : i \in conPrecio}
    IN  [total_comunas |-> Len(res),
         disponibles |-> Cardinality(disp),
         no_disponibles |->
             Cardinality({i \in DOMAIN res : IsNoDisponible(res[i])}),
         errores |-> Cardinality({i \in DOMAIN res : IsError(res[i])}),
         promedio_dias |-> IF conDias # {}
                           THEN RoundTenths(SumOver(conDias, DiasOf(res)),
                                            Cardinality(conDias))
                           ELSE 0,
         dias_distribucion |->
             [d \in {res[i].dias_entrega[1] : i \in conDias} |->
                 Cardinality({i \in conDias : res[i].dias_entrega[1] = d})],
         cobertura_pct |-> IF Len(res) > 0
                           THEN Pct(Cardinality(disp), Len(res))
                           ELSE 0,
         total_regiones |->
             Cardinality({res[i].id_region : i \in DOMAIN res}),
         despacho_gratis |-> Cardinality({i \in disp : EsGratis(res[i])}),
         precio_promedio |-> IF conPrecio # {}
                             THEN RoundDiv(SumOver(conPrecio, PrecioOf(res)),
                                           Cardinality(conPrecio))
                             ELSE 0,
         precio_min |-> IF conPrecio # {} THEN Min(precios) ELSE 0,
         precio_max |-> IF conPrecio # {} THEN Max(precios) ELSE 0]

----------------------------------------------------------------------------
\* The run engine: ThreadPoolExecutor, submit, as_completed

\* walk_links output: links are unique; an id may be missing.
Links(n) ==
    {l \in [1..n -> [id : {None} \cup {Some(k) : k \in 1..n},
                     link : 1..n]] :
        \A i \in 1..n : l[i].link = i /\ l[i].id \in {None, Some(i)}}

\* The reference table: comuna i lies in region 13 (odd i) or 5 (even i);
\* comuna names are represented by their rank in alphabetical order, and
\* the table lists them in reverse alphabetical order.
Comuna(i) ==
    [id_comuna |-> i, comuna |-> 10 - i,
     id_region |-> IF i % 2 = 1 THEN 13 ELSE 5]

\* The prepared tasks, one per key of the comunas dict.
Tasks(n) == {[i \in 1..n |-> Comuna(i)]}

NoCalls == [first |-> None, second |-> None]
Pending == [exc |-> "", value |-> None]

Init ==
    /\ monitor \in {"category", "delivery"}
    /\ workers \in 1..MaxWorkers
    /\ \E n \in 0..MaxTargets :
          targets \in IF monitor = "category" THEN Links(n) ELSE Tasks(n)
    /\ pc = "submit"
    /\ queue = <<>>
    /\ numThreads = 0
    /\ st = [t \in DOMAIN targets |-> "new"]
    /\ calls = [t \in DOMAIN targets |-> NoCalls]
    /\ fut = [t \in DOMAIN targets |-> Pending]
    /\ yielded = {}
    /\ results = <<>>
    /\ report = None
    /\ adapter = Idle /\ walk = Idle /\ disk = Idle /\ proc = Idle
    /\ hlog = Idle

\* Tasks a worker thread is executing (the probes in flight).
InFlight ==
    {t \in DOMAIN targets :
        st[t] \in {"probe", "check_products", "call_endpoint",
                   "get_costo_despacho"}}

\* pool.submit of the next item: the work item is queued and, while fewer
\* than max_workers threads exist, one more thread is started.
Submit(t) ==
    /\ pc = "submit"
    /\ st[t] = "new"
    /\ \A u \in DOMAIN targets : u < t => st[u] # "new"
    /\ st' = [st EXCEPT ![t] = "queued"]
    /\ queue' = Append(queue, t)
    /\ numThreads' = IF numThreads < workers THEN numThreads + 1
                     ELSE numThreads
    /\ UNCHANGED <<monitor, workers, targets, pc, calls, fut, yielded,
                   results, report>>
    /\ UNCHANGED otherVars

\* The submit loop is over: the calling thread enters as_completed.
AllSubmitted ==
    /\ pc = "submit"
    /\ \A t \in DOMAIN targets : st[t] # "new"
    /\ pc' = "collect"
    /\ UNCHANGED <<monitor, workers, targets, queue, numThreads, st, calls,
                   fut, yielded, results, report>>
    /\ UNCHANGED otherVars

\* ThreadFree of a pool that starts a thread per work item.
ThreadAlwaysFree == TRUE

\* A thread that is not executing a work item may take the next one.
ThreadFree == Cardinality(InFlight) < numThreads

\* A worker thread takes the head of the queue and calls the probe
\* function, which starts with polite_pause.
StartTask(t) ==
    /\ queue # <<>>
    /\ t = Head(queue)
    /\ ThreadFree
    /\ queue' = Tail(queue)
    /\ st' = [st EXCEPT ![t] = IF monitor = "category" THEN "probe"
                               ELSE "call_endpoint"]
    /\ UNCHANGED <<monitor, workers, targets, pc, numThreads, calls, fut,
                   yielded, results, report>>
    /\ UNCHANGED otherVars

\* The future of t is set (result or exception) and its thread is free.
Finish(t, outcome) ==
    /\ st' = [st EXCEPT ![t] = "finished"]
    /\ fut' = [fut EXCEPT ![t] = outcome]

\* Category worker: probe() returns; an item without id needs no second
\* call and probe_with_products returns.
Probe(t) ==
    /\ monitor = "category"
    /\ st[t] = "probe"
    /\ \E resp \in UrlResponses :
          /\ calls' = [calls EXCEPT ![t].first = Some(resp)]
          /\ IF HasId(targets[t])
             THEN /\ st' = [st EXCEPT ![t] = "check_products"]
                  /\ fut' = fut
             ELSE Finish(t, probe_with_products(targets[t], resp, None,
                                                TRUE))
    /\ UNCHANGED <<monitor, workers, targets, pc, queue, numThreads,
                   yielded, results, report>>
    /\ UNCHANGED otherVars

\* Category worker: check_products() returns or raises, and with it
\* probe_with_products.
CheckProducts(t) ==
    /\ monitor = "category"
    /\ st[t] = "check_products"
    /\ \E resp \in ProductsResponses, jsonErrIsRequestException \in BOOLEAN :
          /\ calls' = [calls EXCEPT ![t].second = Some(resp)]
          /\ Finish(t, probe_with_products(targets[t], calls[t].first[1],
                                           Some(resp),
                                           jsonErrIsRequestException))
    /\ UNCHANGED <<monitor, workers, targets, pc, queue, numThreads,
                   yielded, results, report>>
    /\ UNCHANGED otherVars

\* Delivery worker: call_endpoint() and parse_payload(); check_comuna goes
\* on to the price call only for an available comuna.
CallEndpoint(t) ==
    /\ monitor = "delivery"
    /\ st[t] = "call_endpoint"
    /\ \E resp \in AvailResponses :
          LET outcome == check_comuna(targets[t], resp, None)
          IN  /\ calls' = [calls EXCEPT ![t].first = Some(resp)]
              /\ IF outcome.exc = "" /\ NeedsCosto(outcome.value[1].estado)
                 THEN /\ st' = [st EXCEPT ![t] = "get_costo_despacho"]
                      /\ fut' = fut
                 ELSE Finish(t, outcome)
    /\ UNCHANGED <<monitor, workers, targets, pc, queue, numThreads,
                   yielded, results, report>>
    /\ UNCHANGED otherVars

\* Delivery worker: get_costo_despacho() returns, and with it check_comuna.
GetCostoDespacho(t) ==
    /\ monitor = "delivery"
    /\ st[t] = "get_costo_despacho"
    /\ \E resp \in CostoResponses :
          /\ calls' = [calls EXCEPT ![t].second = Some(resp)]
          /\ Finish(t, check_comuna(targets[t], calls[t].first[1],
                                    Some(resp)))
    /\ UNCHANGED <<monitor, workers, targets, pc, queue, numThreads,
                   yielded, results, report>>
    /\ UNCHANGED otherVars

\* run_delivery_monitor, except branch: the synthesized result.
ErrorResult(task, e) ==
    [id_comuna |-> task.id_comuna,
     comuna |-> task.comuna,
     id_region |-> task.id_region,
     region |-> REGIONES(task.id_region),
     estado |-> "Error",
     dias_entrega |-> None,
     http_code |-> 0,
     error |-> e]

\* CollectCategory when a raising future discards what was collected.
CollectCategoryAborts(resultados, item, outcome) ==
    IF outcome.exc = "" THEN Append(resultados, outcome.value[1])
    ELSE <<>>

\* run_monitor, body of the as_completed loop: fut.result() is appended;
\* when it raises, the except branch only prints.
CollectCategory(resultados, item, outcome) ==
    IF outcome.exc = "" THEN Append(resultados, outcome.value[1])
    ELSE resultados

\* CollectDelivery with an except branch that only prints.
CollectDeliveryDrops(res, task, outcome) ==
    IF outcome.exc = "" THEN Append(res, outcome.value[1])
    ELSE res

\* run_delivery_monitor, body of the as_completed loop: future.result() is
\* appended; when it raises, the except branch appends the synthesized
\* result.
CollectDelivery(res, task, outcome) ==
    IF outcome.exc = "" THEN Append(res, outcome.value[1])
    ELSE Append(res, ErrorResult(task, outcome.exc))

\* as_completed yields a finished future that it has not yielded yet.
Collect(t) ==
    /\ pc = "collect"
    /\ st[t] = "finished"
    /\ t \notin yielded
    /\ yielded' = yielded \cup {t}
    /\ results' = IF monitor = "category"
                  THEN CollectCategory(results, targets[t], fut[t])
                  ELSE CollectDelivery(results, targets[t], fut[t])
    /\ UNCHANGED <<monitor, workers, targets, pc, queue, numThreads, st,
                   calls, fut, report>>
    /\ UNCHANGED otherVars

\* Exhausted when the loop ends at the first completed future.
ExhaustedOnFirst(done) == done # {} \/ DOMAIN targets = {}

\* Exhausted of a loop and a pool that wait for nothing.
ExhaustedAtOnce(done) == TRUE

\* as_completed is exhausted once it has yielded every future; the pool's
\* shutdown(wait=True) at the end of the with block then finds no work.
Exhausted(done) == done = DOMAIN targets

\* After the with block: the delivery results are sorted, the summary is
\* computed and the report is returned.
Summarize ==
    /\ pc = "collect"
    /\ Exhausted(yielded)
    /\ pc' = "done"
    /\ IF monitor = "category"
       THEN /\ results' = results
            /\ report' = Some([summary |-> CategorySummary(results)])
       ELSE \E sorted \in {SortResults(results)} :
               /\ results' = sorted
               /\ report' =
                    Some([summary |-> DeliverySummary(sorted),
                          stats_por_region |->
                              [reg \in {sorted[i].id_region :
                                           i \in DOMAIN sorted} |->
                                  RegionStats(sorted, reg)]])
    /\ UNCHANGED <<monitor, workers, targets, queue, numThreads, st, calls,
                   fut, yielded>>
    /\ UNCHANGED otherVars

Next ==
    \/ \E t \in DOMAIN targets : Submit(t)
    \/ AllSubmitted
    \/ \E t \in DOMAIN targets : StartTask(t)
    \/ \E t \in DOMAIN targets : Probe(t)
    \/ \E t \in DOMAIN targets : CheckProducts(t)
    \/ \E t \in DOMAIN targets : CallEndpoint(t)
    \/ \E t \in DOMAIN targets : GetCostoDespacho(t)
    \/ \E t \in DOMAIN targets : Collect(t)
    \/ Summarize

Spec == Init /\ [][Next]_vars

\* The pool's threads run whenever they can and every HTTP call returns;
\* the calling thread keeps running.
FairSpec == Spec /\ WF_vars(Next)

----------------------------------------------------------------------------
\* Properties

Raisers == {t \in DOMAIN targets : st[t] = "finished" /\ fut[t].exc # ""}
Returned == {t \in DOMAIN targets : st[t] = "finished" /\ fut[t].exc = ""}

\* The entries of the result list that belong to target t.
ResultsOf(t) ==
    {i \in DOMAIN results :
        IF monitor = "category" THEN results[i].link = targets[t].link
        ELSE results[i].id_comuna = targets[t].id_comuna}

\* C1: when run_monitor has returned, resultados holds exactly one result
\* per enumerated link and summary.total_categorias is the number of links,
\* whatever failed per target (a probe_with_products that raised included).
C1_OneResultPerLink ==
    (monitor = "category" /\ pc = "done") =>
        /\ \A t \in DOMAIN targets : Cardinality(ResultsOf(t)) = 1
        /\ Len(results) = Len(targets)
        /\ report[1].summary.total_categorias = Len(targets)

\* C2: in run_delivery_monitor a check_comuna that raised is caught per
\* task: once its future is yielded, results holds for that comuna one
\* result with estado "Error" carrying its id, name, region and the
\* exception text; every yielded comuna has exactly one result, and when
\* the run has returned len(results) is the number of tasks.
C2_SynthesizedError ==
    monitor = "delivery" =>
        /\ \A t \in DOMAIN targets :
              Cardinality(ResultsOf(t)) = IF t \in yielded THEN 1 ELSE 0
        /\ \A t \in yielded \cap Raisers : \A i \in ResultsOf(t) :
              /\ results[i].estado = "Error"
              /\ results[i].id_comuna = targets[t].id_comuna
              /\ results[i].comuna = targets[t].comuna
              /\ results[i].id_region = targets[t].id_region
              /\ results[i].region = REGIONES(targets[t].id_region)
              /\ results[i].error = fut[t].exc /\ results[i].error # ""
        /\ pc = "done" =>
              /\ Len(results) = Len(targets)
              /\ report[1].summary.total_comunas = Len(targets)

\* A returned delivery run in which one comuna's check_comuna raised and
\* another comuna's returned.
C2_Witness ==
    /\ monitor = "delivery" /\ pc = "done"
    /\ Raisers # {} /\ Returned # {}

\* What the probe function returns for t on the responses t itself received
\* (the products answer decoded under either requests version).
OwnResults(t) ==
    IF monitor = "category"
    THEN {o.value[1] :
            o \in {x \in {probe_with_products(targets[t],
                                              calls[t].first[1],
                                              calls[t].second, b) :
                             b \in BOOLEAN} : x.exc = ""}}
    ELSE {o.value[1] :
            o \in {x \in {check_comuna(targets[t], calls[t].first[1],
                                       calls[t].second)} : x.exc = ""}}

\* C3: when a run has returned and the probe of exactly one target raised,
\* every other target has exactly one result, and it is the result the
\* probe function gives on that target's own responses.
C3_ErrorIsolation ==
    (pc = "done" /\ Cardinality(Raisers) = 1) =>
        \A t \in DOMAIN targets \ Raisers :
            /\ Cardinality(ResultsOf(t)) = 1
            /\ \A i \in ResultsOf(t) :
                  results[i] = fut[t].value[1] /\ results[i] \in OwnResults(t)

\* A returned run of two or more targets in which exactly one probe raised
\* after another target's result had been collected.
C3_Witness ==
    /\ pc = "done" /\ Cardinality(Raisers) = 1 /\ Len(targets) >= 2
    /\ \E t \in Raisers : \E u \in Returned : ResultsOf(u) # {}

\* C4: at every instant at most `workers` probe calls are in flight.
C4_WorkerBound == Cardinality(InFlight) <= workers

\* More targets than workers: every worker is busy and a task waits.
C4_Witness ==
    /\ Len(targets) > workers
    /\ Cardinality(InFlight) = workers
    /\ queue # <<>>

\* C5: the summary exists only when every submitted task has completed and
\* been collected, and under fair scheduling the run eventually returns.
C5_CompletionBarrier ==
    /\ [](report # None =>
            \A t \in DOMAIN targets : st[t] = "finished" /\ t \in yielded)
    /\ <>(pc = "done" /\ report # None)

\* The steps a task and the calling thread still have to take, at most.
StepsLeft(t) ==
    CASE st[t] = "new" -> 5
      [] st[t] = "queued" -> 4
      [] st[t] \in {"probe", "call_endpoint"} -> 3
      [] st[t] \in {"check_products", "get_costo_despacho"} -> 2
      [] OTHER -> IF t \in yielded THEN 0 ELSE 1

Remaining ==
    SumTo([t \in DOMAIN targets |-> StepsLeft(t)], Len(targets))
    + (CASE pc = "submit" -> 2 [] pc = "collect" -> 1 [] OTHER -> 0)

\* The liveness half of C5 without a temporal operator: every step brings
\* the run closer to its return,
C5_EveryStepAdvances == [][Remaining' < Remaining]_vars

\* and some step is possible until the run has returned.
C5_NeverStuck == pc # "done" => ENABLED Next

\* A run of more targets than workers has returned.
C5_Witness ==
    /\ pc = "done" /\ report # None
    /\ Len(targets) > workers

\* The session call of a probe raised (connection error, timeout).
NetworkRaised(t) ==
    \/ calls[t].first # None /\ calls[t].first[1].exc # ""
    \/ calls[t].second # None /\ calls[t].second[1].exc # ""

\* The result carries a non-empty error message.
HasErrorMessage(r) ==
    \/ Get(r, "error") \notin {None, ""}
    \/ Get(r, "productos_error") \notin {None, ""}

\* The result is marked as failed.
MarkedFailed(r) ==
    IF monitor = "category"
    THEN ~r.ok \/ r.tiene_productos = None
    ELSE r.estado = "Error"

\* C6: probe_with_products and check_comuna never raise, and when a
\* network call of the probe raised, the result is marked failed and has a
\* non-empty error message.
C6_ProberNeverRaises ==
    \A t \in DOMAIN targets : st[t] = "finished" =>
        /\ fut[t].exc = ""
        /\ NetworkRaised(t) =>
              /\ MarkedFailed(fut[t].value[1])
              /\ HasErrorMessage(fut[t].value[1])

\* C7: a result with tiene_productos True has ok True (category); a result
\* with estado "Disponible" has a 2xx http_code (delivery).
C7_AvailableImpliesSucceeded ==
    \A i \in DOMAIN results :
        IF monitor = "category"
        THEN results[i].tiene_productos = Some(TRUE) => results[i].ok
        ELSE results[i].estado = "Disponible" =>
                results[i].http_code \in 200..299

\* The availability call (products API / delivery endpoint) of t ended
\* with a 429, a 5xx or a network failure.
AvailabilityCall(t) ==
    IF monitor = "category" THEN calls[t].second ELSE calls[t].first

AvailabilityFailed(t) ==
    /\ AvailabilityCall(t) # None
    /\ \/ AvailabilityCall(t)[1].exc # ""
       \/ AvailabilityCall(t)[1].status = 429
       \/ AvailabilityCall(t)[1].status >= 500

\* C8: a probe whose availability call ended with a 429, a 5xx or a
\* network failure records availability unknown (tiene_productos None,
\* estado "Error"), and the summary does not count it as unavailable.
C8_FailureIsUnknown ==
    /\ \A t \in Returned : AvailabilityFailed(t) =>
          IF monitor = "category"
          THEN fut[t].value[1].tiene_productos = None
          ELSE fut[t].value[1].estado = "Error"
    /\ (pc = "done" /\ \A t \in Returned : AvailabilityFailed(t)) =>
          IF monitor = "category"
          THEN report[1].summary.sin_productos = 0
          ELSE report[1].summary.no_disponibles = 0

\* C9: in every category result, error is non-empty exactly when ok is
\* False, and productos_error is non-empty exactly when tiene_productos is
\* None.
C9_ErrorMessageIff ==
    monitor = "category" =>
        \A i \in DOMAIN results :
            /\ results[i].error # "" <=> ~results[i].ok
            /\ results[i].productos_error # "" <=>
                  results[i].tiene_productos = None

\* estado as check_comuna computes it from the availability response, or
\* "raised" when parse_payload raises.
EstadoOf(resp) ==
    LET parsed == parse_payload(call_endpoint(resp).payload)
    IN  IF parsed.exc # "" THEN "raised" ELSE parsed.value[1].estado

----------------------------------------------------------------------------
\* The retrying adapter of create_session (RetrySpec)
\*
\* create_session mounts HTTPAdapter(max_retries=Retry(total=..,
\* status_forcelist=.., allowed_methods=.., raise_on_status=False)).  One
\* session.get / session.post is a loop of attempts: the Retry object
\* counts the retries that are left (total), every retry decrements it and
\* the call ends when the count would fall below zero.

\* The engine's variables in the specifications that do not run it.
EngineIdle ==
    /\ monitor = "none" /\ workers = 0 /\ targets = <<>> /\ pc = "idle"
    /\ queue = <<>> /\ numThreads = 0 /\ st = <<>> /\ calls = <<>>
    /\ fut = <<>> /\ yielded = {} /\ results = <<>> /\ report = None

\* Retry(total=5) in monitor.py, Retry(total=3) in delivery_monitor.py.
CategoryRetryTotal == 5
DeliveryRetryTotal == 3

status_forcelist == {429, 500, 502, 503, 504}

\* The functions that send a request.
Calls == {"probe", "check_products", "call_endpoint", "get_costo_despacho"}

\* get_costo_despacho posts; the others get.
MethodOf(call) == IF call = "get_costo_despacho" THEN "POST" ELSE "GET"

\* allowed_methods: GET and HEAD (monitor.py), GET (delivery_monitor.py).
MethodRetryable(call) == MethodOf(call) = "GET"

RetryTotal(call) ==
    IF call \in {"probe", "check_products"} THEN CategoryRetryTotal
    ELSE DeliveryRetryTotal

\* A well-formed 200 body of each endpoint.
GoodBody(call) ==
    CASE call = "probe" -> "html"
      [] call = "check_products" -> "total_pos"
      [] call = "call_endpoint" -> "tarifas"
      [] OTHER -> "costo_pos"

\* What one attempt can meet: an answer of the server (the bodies of the
\* failure statuses are empty) or a failure of the connection.
Answers(call) ==
    { Response(200, GoodBody(call)), Response(200, "not_json"),
      Response(404, "") }
    \cup {Response(s, "") : s \in status_forcelist}
    \cup {Raised("ConnectTimeout"), Raised("ReadTimeout")}

\* Retry.is_retry: the status is in status_forcelist and the method is
\* allowed.
is_retry(call, a) ==
    a.exc = "" /\ MethodRetryable(call) /\ a.status \in status_forcelist

\* A failed connection is retried; a failed read only for an allowed
\* method.
ErrorRetried(call, a) ==
    a.exc # "" /\ (a.exc = "ConnectTimeout" \/ MethodRetryable(call))

\* Retry.increment: one retry less; Retry.is_exhausted: the count fell
\* below zero.
increment(total) == total - 1
is_exhausted(total) == total < 0

RetryInit ==
    /\ EngineIdle
    /\ walk = Idle /\ disk = Idle /\ proc = Idle /\ hlog = Idle
    /\ \E c \in Calls :
          adapter = [pc |-> "send", call |-> c, total |-> RetryTotal(c),
                     attempts |-> 0, first |-> None, onlyRetryable |-> TRUE,
                     resp |-> None, handed |-> None]

\* One attempt is sent and answered.
Attempted(a) ==
    [adapter EXCEPT !.attempts = @ + 1,
                    !.first = IF adapter.attempts = 0 THEN Some(a) ELSE @,
                    !.onlyRetryable =
                        @ /\ a.exc = "" /\ a.status \in status_forcelist]

\* The attempt is retried: retries are left after increment.
SendRetried(a) ==
    /\ adapter.pc = "send"
    /\ is_retry(adapter.call, a) \/ ErrorRetried(adapter.call, a)
    /\ ~is_exhausted(increment(adapter.total))
    /\ adapter' = [Attempted(a) EXCEPT !.total = increment(adapter.total)]
    /\ UNCHANGED <<engineVars, walk, disk, proc, hlog>>

\* The retries are exhausted: raise_on_status=False returns the last
\* response; a connection that kept failing raises MaxRetryError, which
\* requests raises as ConnectionError.
SendExhausted(a) ==
    /\ adapter.pc = "send"
    /\ is_retry(adapter.call, a) \/ ErrorRetried(adapter.call, a)
    /\ is_exhausted(increment(adapter.total))
    /\ adapter' = [Attempted(a) EXCEPT
                      !.pc = "returned",
                      !.total = increment(adapter.total),
                      !.resp = IF a.exc = "" THEN Some(a)
                               ELSE Some(Raised("ConnectionError"))]
    /\ UNCHANGED <<engineVars, walk, disk, proc, hlog>>

\* Nothing to retry: the response is returned, the error is raised.
SendReturned(a) ==
    /\ adapter.pc = "send"
    /\ ~is_retry(adapter.call, a) /\ ~ErrorRetried(adapter.call, a)
    /\ adapter' = [Attempted(a) EXCEPT !.pc = "returned", !.resp = Some(a)]
    /\ UNCHANGED <<engineVars, walk, disk, proc, hlog>>

\* What the calling function makes of the adapter's outcome, as the
\* outcome it hands to its own caller.
Prober(call, resp, jsonErrIsRequestException) ==
    CASE call = "probe" -> Return(probe(resp))
      [] call = "check_products" ->
            check_products(resp, jsonErrIsRequestException)
      [] call = "call_endpoint" ->
            LET ep == call_endpoint(resp)
                parsed == parse_payload(ep.payload)
            IN  IF parsed.exc # "" THEN Raise(parsed.exc)
                ELSE Return([http_code |-> ep.http_code,
                             estado |-> parsed.value[1].estado])
      [] OTHER -> Return(get_costo_despacho(resp))

\* The calling function returns (or raises) to the run engine.
HandOver ==
    /\ adapter.pc = "returned"
    /\ \E jsonErrIsRequestException \in BOOLEAN :
          adapter' = [adapter EXCEPT
                         !.pc = "done",
                         !.handed = Some(Prober(adapter.call,
                                                adapter.resp[1],
                                                jsonErrIsRequestException))]
    /\ UNCHANGED <<engineVars, walk, disk, proc, hlog>>

RetryNext ==
    \/ \E a \in Answers(adapter.call) : SendRetried(a)
    \/ \E a \in Answers(adapter.call) : SendExhausted(a)
    \/ \E a \in Answers(adapter.call) : SendReturned(a)
    \/ HandOver

RetrySpec == RetryInit /\ [][RetryNext]_vars

\* C11: a GET whose every response had a status of status_forcelist is
\* sent exactly total times (5 in the category monitor, 3 in the delivery
\* monitor) and its last response is handed to the prober, not raised.
C11_RetryBound ==
    (/\ adapter.pc \in {"returned", "done"}
     /\ MethodOf(adapter.call) = "GET"
     /\ adapter.onlyRetryable) =>
        /\ adapter.attempts = RetryTotal(adapter.call)
        /\ adapter.resp[1].exc = ""

\* The first answer is a failure that is not retryable: a 4xx other than
\* 429, or a body that cannot be decoded.
NonRetryableFailure(call, a) ==
    /\ a.exc = ""
    /\ \/ a.status >= 400 /\ a.status < 500 /\ a.status # 429
       \/ a.status = 200 /\ a.body = "not_json" /\ call # "probe"

\* The handed result is marked as an error and carries a message.
MarkedAsError(call, r) ==
    CASE call = "probe" -> r.ok = FALSE /\ r.error # ""
      [] call = "check_products" -> r.productos_error # ""
      [] call = "call_endpoint" -> r.estado = "Error"
      [] OTHER -> FALSE

\* C12: a response with a 4xx status other than 429, or a malformed body,
\* is not retried (one attempt) and is handed to the run engine as a result
\* marked as an error with a message, not as an exception.
C12_NonRetryableSurfaces ==
    (/\ adapter.pc = "done"
     /\ NonRetryableFailure(adapter.call, adapter.first[1])) =>
        /\ adapter.attempts = 1
        /\ adapter.handed[1].exc = ""
        /\ MarkedAsError(adapter.call, adapter.handed[1].value[1])

----------------------------------------------------------------------------
\* compare_categories (DiffSpec)

\* Largest category id and longest list of current results compare_categories
\* is applied to.
MaxId == 2
MaxCurrent == 2

\* Python truthiness of an id: None and 0 are false.
Truthy(id) == id # None /\ id[1] # 0

\* str(r.get('id', '')): the key is always there, so the default is never
\* used and a None id gives 'None'.
StrId(id) == IF id = None THEN "None" ELSE ToString(id[1])

\* sorted(seq, key=lambda x: x.get('nombre', '')): a stable sort.  Names
\* are represented by their rank in alphabetical order.
NombrePos(seq, i) ==
    Cardinality({j \in DOMAIN seq :
        \/ seq[j].nombre < seq[i].nombre
        \/ seq[j].nombre = seq[i].nombre /\ j <= i})
SortByNombre(seq) ==
    [k \in DOMAIN seq |-> seq[CHOOSE i \in DOMAIN seq : NombrePos(seq, i) = k]]

\* The values of a dict listed in some order of its keys.
ValuesOf(d, keys) ==
    LET order == CHOOSE f \in [1..Cardinality(keys) -> keys] :
                    \A i, j \in 1..Cardinality(keys) : f[i] = f[j] => i = j
    IN  [i \in 1..Cardinality(keys) |-> d[order[i]]]

\* compare_categories(current, previous): current is the list of results,
\* previous the dict load_previous_categories built from the snapshot,
\* keyed by the id strings of its rows.
compare_categories(current, previous) ==
    LET current_ids == {StrId(current[i].id) :
                           i \in {j \in DOMAIN current : Truthy(current[j].id)}}
        previous_ids == DOMAIN previous
        new_ids == current_ids \ previous_ids
        IsNew(r) == StrId(r.id) \in new_ids
        new_categories == SelectSeq(current, IsNew)
        removed_ids == previous_ids \ current_ids
        removed_categories == ValuesOf(previous, removed_ids)
    IN  [new |-> SortByNombre(new_categories),
         removed |-> SortByNombre(removed_categories),
         new_count |-> Len(new_categories),
         removed_count |-> Len(removed_categories)]

\* Result lists: result i has link i, an id that may be missing, 0 or
\* shared with another result, and a name.
CurrentLists ==
    UNION {[1..n -> [id : {None} \cup {Some(k) : k \in 0..MaxId},
                     nombre : 1..MaxCurrent]] : n \in 0..MaxCurrent}

\* A row of the snapshot as load_previous_categories keeps it: the id
\* string of category k; its name sorts by k.
PreviousRow(k) ==
    [id |-> ToString(k), nombre |-> k, total_productos |-> ""]

\* Previous maps: any set of rows with a non-empty id.
PreviousMaps ==
    {[key \in {ToString(k) : k \in S} |->
        PreviousRow(CHOOSE k \in S : ToString(k) = key)] :
     S \in SUBSET (0..MaxId + 1)}

DiffInit ==
    /\ EngineIdle
    /\ adapter = Idle /\ walk = Idle /\ disk = Idle /\ hlog = Idle
    /\ \E current \in CurrentLists, previous \in PreviousMaps :
          proc = [pc |-> "compare", current |-> current,
                  previous |-> previous, comparison |-> None]

\* main line 955: comparison = compare_categories(resultados, previous).
Compare ==
    /\ proc.pc = "compare"
    /\ proc' = [proc EXCEPT
                   !.pc = "compared",
                   !.comparison =
                       Some(compare_categories(proc.current, proc.previous))]
    /\ UNCHANGED <<engineVars, adapter, walk, disk, hlog>>

DiffNext == Compare

DiffSpec == DiffInit /\ [][DiffNext]_vars

\* The ids of the current results and of the previous snapshot, as id
\* strings, and the ids a comparison lists.
CurrentIds ==
    {StrId(proc.current[i].id) :
        i \in {j \in DOMAIN proc.current : proc.current[j].id # None}}
PreviousIds == DOMAIN proc.previous
NewIds == {StrId(proc.comparison[1].new[i].id) :
              i \in DOMAIN proc.comparison[1].new}
RemovedIds == {proc.comparison[1].removed[i].id :
                  i \in DOMAIN proc.comparison[1].removed}

\* C13: the ids of 'new' are exactly currentIds \ previousIds, the ids of
\* 'removed' exactly previousIds \ currentIds, the two are disjoint, and
\* new_count / removed_count are the sizes of those sets.
C13_DiffIsSetDifference ==
    proc.pc = "compared" =>
        /\ NewIds = CurrentIds \ PreviousIds
        /\ RemovedIds = PreviousIds \ CurrentIds
        /\ NewIds \cap RemovedIds = {}
        /\ proc.comparison[1].new_count = Cardinality(NewIds)
        /\ proc.comparison[1].removed_count = Cardinality(RemovedIds)

\* The part of C13 that holds of every input: the set differences over
\* the truthy current ids, and the removed count.
DiffOfTruthyIds ==
    proc.pc = "compared" =>
        LET truthy == {StrId(proc.current[i].id) :
                          i \in {j \in DOMAIN proc.current :
                                    Truthy(proc.current[j].id)}}
        IN  /\ NewIds = truthy \ PreviousIds
            /\ RemovedIds = PreviousIds \ truthy
            /\ NewIds \cap RemovedIds = {}
            /\ proc.comparison[1].removed_count = Cardinality(RemovedIds)
            /\ proc.comparison[1].new_count >= Cardinality(NewIds)

----------------------------------------------------------------------------
\* main() of the monitors and their files (MainSpec, RunsSpec)

\* save_category_history keeps the last 30 entries.
CategoryHistoryMax == 30

\* Largest number of categories of the menu, largest number of entries a
\* loaded log has beyond its maximum, largest number of runs of RunsSpec.
MaxLinks == 2
MaxExcess == 1
MaxRuns == 2

\* A file: absent, complete with its content, or partial: opened for
\* writing (truncated) and not written to its end, which json.load rejects.
Absent == [state |-> "absent"]
File(content) == [state |-> "complete", content |-> content]
Partial == [state |-> "partial"]

\* LastN of a save that does not cut the log.
LastNKeepsAll(history, n) == history

\* LastN of a save that cuts with history[:n].
LastNKeepsOldest(history, n) ==
    IF Len(history) > n THEN SubSeq(history, 1, n) ELSE history

\* history[-n:]
LastN(history, n) ==
    IF Len(history) > n
    THEN SubSeq(history, Len(history) - n + 1, Len(history))
    ELSE history

\* The menu as walk_links returns it: category i has link i, name i and an
\* id that may be missing.
MenuLinks(n) ==
    {[i \in 1..n |-> [id |-> l[i].id, link |-> i, nombre |-> i]] :
        l \in Links(n)}

\* What fetch_menu meets: a menu, an error status (its body decodes to a
\* dict without "data") or a failed connection.
MenuResponses ==
    {Response(200, links) : links \in UNION {MenuLinks(n) : n \in 0..MaxLinks}}
    \cup {Response(503, <<>>), Raised("ConnectionError")}

\* fetch_menu without its raise_for_status().
FetchMenuRaisesOnNetworkOnly(resp) == resp.exc # ""

\* fetch_menu raises: session.get raised, or raise_for_status() did.
FetchMenuRaises(resp) == resp.exc # "" \/ ~RespOk(resp)

\* What the calls of one probe_with_products can meet: the response to
\* the page, the response of the products API and how resp.json() fails.
CallResults == UrlResponses \X ProductsResponses \X BOOLEAN

\* The outcome of probe_with_products for an item under c.
OutcomeOf(item, c) ==
    probe_with_products(item, c[1],
                        IF HasId(item) THEN Some(c[2]) ELSE None, c[3])

\* Whether probe_with_products returns (not raises) under c.
Returns(item, c) == OutcomeOf(item, c).exc = ""

\* resultados after the first k futures were collected.
RECURSIVE CollectFrom(_, _, _)
CollectFrom(items, outs, k) ==
    IF k = 0 THEN <<>>
    ELSE CollectCategory(CollectFrom(items, outs, k - 1), items[k], outs[k])

\* A result as main uses it: the columns id and nombre of the snapshot
\* (the other columns are written and never read back into a decision).
ResultRow(items, r) ==
    [id |-> r.id, nombre |-> items[r.link].nombre, link |-> r.link]

\* generate_csv: the rows, sorted by nombre; csv.writer writes None as ''
\* and an int by str().
CsvRows(resultados) ==
    LET sorted == SortByNombre(resultados)
    IN  [i \in DOMAIN sorted |->
            [id |-> IF sorted[i].id = None THEN ""
                    ELSE ToString(sorted[i].id[1]),
             nombre |-> sorted[i].nombre]]

\* load_previous_categories: the rows with a non-empty id, keyed by id (a
\* later row replaces an earlier one of the same id); {} for a missing
\* file.
load_previous_categories(csv) ==
    IF csv.state # "complete" THEN <<>>
    ELSE LET rows == csv.content
             keys == {rows[i].id : i \in {j \in DOMAIN rows : rows[j].id # ""}}
         IN  [key \in keys |->
                LET last == CHOOSE i \in DOMAIN rows :
                              /\ rows[i].id = key
                              /\ \A j \in DOMAIN rows :
                                    rows[j].id = key => j <= i
                IN  [id |-> key, nombre |-> rows[last].nombre,
                     total_productos |-> ""]]

\* load_category_history: the entries of the file; [] when the file is
\* missing or json.load raises.
load_category_history(file) ==
    IF file.state = "complete" THEN file.content ELSE <<>>

\* update_category_history: the entry of this run is appended.
HistoryRef(cat, timestamp) ==
    [id |-> cat.id, nombre |-> cat.nombre, timestamp |-> timestamp]
update_category_history(history, comparison, timestamp, current) ==
    Append(history,
           [timestamp |-> timestamp,
            total_categories |-> Len(current),
            added |-> [i \in DOMAIN comparison.new |->
                          HistoryRef(comparison.new[i], timestamp)],
            removed |-> [i \in DOMAIN comparison.removed |->
                            HistoryRef(comparison.removed[i], timestamp)]])

\* A log of n entries written by earlier runs at times 1..n.
OldLog(n) ==
    [k \in 1..n |-> [timestamp |-> k, total_categories |-> 0,
                     added |-> <<>>, removed |-> <<>>]]

\* The time of run r: later than every entry of a loaded log.
Now(r) == CategoryHistoryMax + MaxExcess + r

\* The locals of main() of the category monitor at the start of run r.
\* start is the directory as the run found it and prev the menu of the run
\* before (None before the first run); both are kept for the properties.
CategoryMain(r, files, prev) ==
    [program |-> "category", pc |-> "load_previous", run |-> r,
     start |-> files, prev |-> prev,
     previous_categories |-> <<>>, history |-> <<>>, menu |-> None,
     links |-> <<>>, resultados |-> <<>>, comparison |-> None,
     submitted |-> FALSE, attempted |-> {}, errors |-> {}]

\* The locals of main() of the delivery monitor.
DeliveryMain(files) ==
    [program |-> "delivery", pc |-> "load_tables", run |-> 1,
     start |-> files, prev |-> None, links |-> <<>>, resultados |-> <<>>,
     submitted |-> FALSE, attempted |-> {}, errors |-> {}]

\* Snapshots an earlier run can have left: none, or the rows of a menu.
OldSnapshots ==
    {Absent} \cup
    {File(CsvRows(links)) :
        links \in UNION {MenuLinks(n) : n \in 1..MaxLinks}}

\* History files an earlier run can have left.
OldHistories ==
    {Absent, Partial} \cup
    {File(OldLog(n)) :
        n \in {0} \cup
              (CategoryHistoryMax - 1)..(CategoryHistoryMax + MaxExcess)}

\* The output directory before a run of the category monitor.
OldDirectories ==
    {[csv |-> csv, history |-> h, backup |-> Absent,
      report_json |-> out, index_html |-> out, txt |-> out] :
        csv \in OldSnapshots, h \in OldHistories, out \in {Absent, File(0)}}

\* main lines 943-945.
LoadPrevious ==
    /\ proc.pc = "load_previous"
    /\ proc' = [proc EXCEPT
                   !.pc = "load_history",
                   !.previous_categories = load_previous_categories(disk.csv)]
    /\ UNCHANGED <<engineVars, adapter, walk, disk, hlog>>

\* main lines 948-950.
LoadHistory ==
    /\ proc.pc = "load_history"
    /\ proc' = [proc EXCEPT
                   !.pc = "fetch_menu",
                   !.history = load_category_history(disk.history)]
    /\ UNCHANGED <<engineVars, adapter, walk, disk, hlog>>

\* run_monitor lines 204-211: the menu is fetched and walked; an exception
\* of fetch_menu leaves run_monitor and main.
FetchMenu(resp) ==
    /\ proc.pc = "fetch_menu"
    /\ proc' = IF FetchMenuRaises(resp)
               THEN [proc EXCEPT !.pc = "aborted", !.menu = Some(resp),
                                 !.errors = @ \cup {"fetch_menu"}]
               ELSE [proc EXCEPT !.pc = "run_monitor", !.menu = Some(resp),
                                 !.links = resp.body]
    /\ UNCHANGED <<engineVars, adapter, walk, disk, hlog>>

\* run_monitor lines 213-259: the pool probes every link and the futures
\* are collected (here in the order of the links; main sorts what it
\* writes).  returned are the links whose probe_with_products returns, the
\* others raise; one way of each is followed.
RunMonitor ==
    /\ proc.pc = "run_monitor"
    /\ \E returned \in SUBSET DOMAIN proc.links :
          /\ \A i \in DOMAIN proc.links :
                ~ \A c \in CallResults :
                      Returns(proc.links[i], c) # (i \in returned)
          /\ LET outs == [i \in DOMAIN proc.links |->
                            OutcomeOf(proc.links[i],
                                      CHOOSE c \in CallResults :
                                          Returns(proc.links[i], c)
                                              = (i \in returned))]
                 full == CollectFrom(proc.links, outs, Len(proc.links))
             IN  proc' = [proc EXCEPT
                             !.pc = "compare",
                             !.submitted = TRUE,
                             !.resultados =
                                 [i \in DOMAIN full |->
                                     ResultRow(proc.links, full[i])]]
    /\ UNCHANGED <<engineVars, adapter, walk, disk, hlog>>

\* main lines 955-956.
CompareCategories ==
    /\ proc.pc = "compare"
    /\ proc' = [proc EXCEPT
                   !.pc = "update_history",
                   !.comparison =
                       Some(compare_categories(proc.resultados,
                                               proc.previous_categories))]
    /\ UNCHANGED <<engineVars, adapter, walk, disk, hlog>>

\* main lines 962-966.
UpdateHistory ==
    /\ proc.pc = "update_history"
    /\ proc' = [proc EXCEPT
                   !.pc = "save_history",
                   !.history =
                       update_category_history(proc.history,
                                               proc.comparison[1],
                                               Now(proc.run),
                                               proc.resultados)]
    /\ UNCHANGED <<engineVars, adapter, walk, disk, hlog>>

\* save_category_history whose except clause is missing.
SaveHistoryPropagates == FALSE

\* save_category_history lines 320-325: an exception of open or json.dump
\* is caught and printed.
SaveHistoryCatches == TRUE

\* What a failed history write leaves of main.
HistoryWriteFailed ==
    [proc EXCEPT !.pc = IF SaveHistoryCatches THEN "save_json"
                        ELSE "aborted",
                 !.history = LastN(proc.history, CategoryHistoryMax),
                 !.attempted = @ \cup {"history"},
                 !.errors = @ \cup {"history"}]

\* save_category_history lines 317-321: the log is cut to its last 30
\* entries and the file is opened for writing, which truncates it, or
\* open raises.
SaveHistoryOpen ==
    /\ proc.pc = "save_history"
    /\ \/ /\ disk' = [disk EXCEPT !.history = Partial]
          /\ proc' = [proc EXCEPT
                         !.pc = "dump_history",
                         !.history = LastN(proc.history, CategoryHistoryMax),
                         !.attempted = @ \cup {"history"}]
       \/ /\ disk' = disk
          /\ proc' = HistoryWriteFailed
    /\ UNCHANGED <<engineVars, adapter, walk, hlog>>

\* save_category_history line 322: json.dump writes the log and the file
\* is closed, or the write raises part of the way.
SaveHistoryDump ==
    /\ proc.pc = "dump_history"
    /\ \/ /\ disk' = [disk EXCEPT !.history = File(proc.history)]
          /\ proc' = [proc EXCEPT !.pc = "save_json"]
       \/ /\ disk' = disk
          /\ proc' = HistoryWriteFailed
    /\ UNCHANGED <<engineVars, adapter, walk, hlog>>

\* A write that main does not guard: it writes its file or raises out of
\* main.
Unguarded(at, file, next) ==
    /\ proc.pc = at
    /\ \/ /\ disk' = [disk EXCEPT ![file] = File(Now(proc.run))]
          /\ proc' = [proc EXCEPT !.pc = next, !.attempted = @ \cup {file}]
       \/ /\ disk' = disk
          /\ proc' = [proc EXCEPT !.pc = "aborted",
                                  !.attempted = @ \cup {file},
                                  !.errors = @ \cup {file}]
    /\ UNCHANGED <<engineVars, adapter, walk, hlog>>

\* main lines 972-975 and 978-982 (delivery_monitor.py lines 1583-1593,
\* where the HTML is the last file).
SaveJson == Unguarded("save_json", "report_json", "save_html")
SaveHtml ==
    Unguarded("save_html", "index_html",
              IF proc.program = "category" THEN "backup" ELSE "done")

\* backup_csv (main line 986): the snapshot is copied, if there is one; a
\* failure is caught and printed.
BackupCsv ==
    /\ proc.pc = "backup"
    /\ proc' = [proc EXCEPT !.pc = "save_csv"]
    /\ \/ disk.csv.state # "absent" /\ disk' = [disk EXCEPT !.backup = disk.csv]
       \/ disk' = disk
    /\ UNCHANGED <<engineVars, adapter, walk, hlog>>

\* generate_csv lines 374-383: the rows are sorted and the snapshot is
\* opened for writing, which truncates it, or open raises out of main.
SaveCsvOpen ==
    /\ proc.pc = "save_csv"
    /\ \/ /\ disk' = [disk EXCEPT !.csv = File(<<>>)]
          /\ proc' = [proc EXCEPT !.pc = "write_rows",
                                  !.attempted = @ \cup {"csv"}]
       \/ /\ disk' = disk
          /\ proc' = [proc EXCEPT !.pc = "aborted",
                                  !.attempted = @ \cup {"csv"},
                                  !.errors = @ \cup {"csv"}]
    /\ UNCHANGED <<engineVars, adapter, walk, hlog>>

\* generate_csv lines 386-415: the rows are written, all of them or, when
\* a write raises, the first k.
SaveCsvRows ==
    /\ proc.pc = "write_rows"
    /\ LET rows == CsvRows(proc.resultados)
       IN  \/ /\ disk' = [disk EXCEPT !.csv = File(rows)]
              /\ proc' = [proc EXCEPT !.pc = "save_txt"]
           \/ \E k \in 0..(Len(rows) - 1) :
                 /\ disk' = [disk EXCEPT !.csv = File(SubSeq(rows, 1, k))]
                 /\ proc' = [proc EXCEPT !.pc = "aborted",
                                         !.errors = @ \cup {"csv"}]
    /\ UNCHANGED <<engineVars, adapter, walk, hlog>>

\* main line 997: generate_txt.
SaveTxt == Unguarded("save_txt", "txt", "done")

\* The reference tables of the delivery monitor.
Tables == {"ciudad.csv", "comuna.csv", "ciudad_comuna.csv"}

\* The directory before a run of the delivery monitor: the reference
\* tables that exist, and the outputs of earlier runs.
DeliveryDirectories ==
    {[tables |-> present, report_json |-> out, index_html |-> out] :
        present \in SUBSET Tables, out \in {Absent, File(0)}}

\* run_delivery_monitor lines 262-290: the three tables are opened (open
\* raises for a missing one) and the tasks are prepared.
LoadTables ==
    /\ proc.pc = "load_tables"
    /\ IF disk.tables = Tables
       THEN \E tasks \in UNION {Tasks(n) : n \in 0..MaxLinks} :
               proc' = [proc EXCEPT !.pc = "run_delivery", !.links = tasks]
       ELSE proc' = [proc EXCEPT !.pc = "aborted",
                                 !.errors = @ \cup {"load_tables"}]
    /\ UNCHANGED <<engineVars, adapter, walk, disk, hlog>>

\* results after the first k futures were collected.
RECURSIVE CollectDeliveryFrom(_, _, _)
CollectDeliveryFrom(tasks, outs, k) ==
    IF k = 0 THEN <<>>
    ELSE CollectDelivery(CollectDeliveryFrom(tasks, outs, k - 1), tasks[k],
                         outs[k])

\* run_delivery_monitor lines 292-331: the pool checks every comuna, the
\* futures are collected and the results sorted.
RunDelivery ==
    /\ proc.pc = "run_delivery"
    /\ \E met \in [DOMAIN proc.links -> AvailResponses \X CostoResponses] :
          LET outs == [i \in DOMAIN proc.links |->
                          check_comuna(proc.links[i], met[i][1],
                                       Some(met[i][2]))]
          IN  proc' = [proc EXCEPT
                          !.pc = "save_json",
                          !.submitted = TRUE,
                          !.resultados =
                              SortResults(CollectDeliveryFrom(
                                  proc.links, outs, Len(proc.links)))]
    /\ UNCHANGED <<engineVars, adapter, walk, disk, hlog>>

\* The positions at which main is running.
Running ==
    {"load_previous", "load_history", "fetch_menu", "run_monitor", "compare",
     "update_history", "save_history", "dump_history", "save_json",
     "save_html", "backup", "save_csv", "write_rows", "save_txt",
     "load_tables", "run_delivery"}

\* The process is killed: the files stay as they are.
Crash ==
    /\ proc.pc \in Running
    /\ proc' = [proc EXCEPT !.pc = "crashed"]
    /\ UNCHANGED <<engineVars, adapter, walk, disk, hlog>>

\* The scheduler starts the next run in the directory the last one left.
NextRun ==
    /\ proc.program = "category"
    /\ proc.pc \in {"done", "aborted", "crashed"}
    /\ proc.run < MaxRuns
    /\ proc' = CategoryMain(proc.run + 1, disk,
                            Some([links |-> proc.links,
                                  ended |-> proc.pc]))
    /\ UNCHANGED <<engineVars, adapter, walk, disk, hlog>>

\* The history files of the PageSpeed monitor and of the payment and login
\* dashboards: lists of runs, here of the times of the runs.
PagespeedHistoryMax == 90
PaymentHistoryMax == 100
LoginHistoryMax == 100

LogPrograms == {"pagespeed", "payment", "login"}

LogMax(program) ==
    CASE program = "category" -> CategoryHistoryMax
      [] program = "pagespeed" -> PagespeedHistoryMax
      [] program = "payment" -> PaymentHistoryMax
      [] OTHER -> LoginHistoryMax

\* A log of n runs at times 1..n.
OldRuns(n) == [k \in 1..n |-> k]

\* History files an earlier run can have left for a program.
OldLogs(program) ==
    {Absent, Partial} \cup
    {File(OldRuns(n)) :
        n \in {0} \cup (LogMax(program) - 1)..(LogMax(program) + MaxExcess)}

\* load_history: pagespeed_monitor.py and login_dashboard.py give the
\* empty history for a missing file and for any exception;
\* payment_dashboard.py catches FileNotFoundError only, so an undecodable
\* file raises out of main.
load_history(program, file) ==
    CASE file.state = "complete" -> Return(file.content)
      [] file.state = "absent" -> Return(<<>>)
      [] OTHER -> IF program = "payment" THEN Raise("JSONDecodeError")
                  ELSE Return(<<>>)

\* add_to_history (pagespeed_monitor.py): append, then keep the last
\* max_entries.
add_to_history(history, new_data, max_entries) ==
    LastN(Append(history, new_data), max_entries)

\* The program starts on its history file; now is the time of the run and
\* tests whether the run has results to record.
LogRun(program, file, now, tests) ==
    [program |-> program, pc |-> "load_history", start |-> file,
     file |-> file, now |-> now, tests |-> tests, history |-> <<>>,
     appended |-> FALSE, written |-> FALSE]

\* run_pagespeed_monitor line 239, payment main line 749, login main line
\* 821.
LoadLog ==
    /\ hlog.pc = "load_history"
    /\ LET loaded == load_history(hlog.program, hlog.file)
       IN  hlog' = IF loaded.exc # ""
                   THEN [hlog EXCEPT !.pc = "aborted"]
                   ELSE [hlog EXCEPT !.pc = "append",
                                     !.history = loaded.value[1]]
    /\ UNCHANGED <<engineVars, adapter, walk, disk, proc>>

\* run_pagespeed_monitor lines 240-241: add_to_history and save_history.
AppendPagespeed ==
    /\ hlog.pc = "append"
    /\ hlog.program = "pagespeed"
    /\ LET history == add_to_history(hlog.history, hlog.now,
                                     PagespeedHistoryMax)
       IN  hlog' = [hlog EXCEPT !.pc = "done", !.history = history,
                                !.appended = TRUE, !.written = TRUE,
                                !.file = File(history)]
    /\ UNCHANGED <<engineVars, adapter, walk, disk, proc>>

\* payment main lines 751-777 and login main lines 824-851: a run with
\* results whose minute is not in the history is appended and the history
\* saved; save_history writes the last 100 runs (the login dashboard also
\* cuts the list in memory).
AppendDashboard ==
    /\ hlog.pc = "append"
    /\ hlog.program \in {"payment", "login"}
    /\ LET existing == \E i \in DOMAIN hlog.history :
                          hlog.history[i] = hlog.now
           history == Append(hlog.history, hlog.now)
           trimmed == LastN(history, LogMax(hlog.program))
       IN  hlog' = IF hlog.tests /\ ~existing
                   THEN [hlog EXCEPT
                            !.pc = "done",
                            !.history = IF hlog.program = "login"
                                        THEN trimmed ELSE history,
                            !.appended = TRUE, !.written = TRUE,
                            !.file = File(trimmed)]
                   ELSE [hlog EXCEPT !.pc = "done"]
    /\ UNCHANGED <<engineVars, adapter, walk, disk, proc>>

\* The time of a run on a log: the minute after its last run, or (a second
\* run in the same minute) the minute of its last run.
RunTimes(file) ==
    IF file.state = "complete" /\ Len(file.content) > 0
    THEN {Len(file.content), Len(file.content) + 1}
    ELSE {1}

MainInit ==
    /\ EngineIdle
    /\ adapter = Idle /\ walk = Idle
    /\ \/ /\ disk \in OldDirectories
          /\ proc = CategoryMain(1, disk, None)
          /\ hlog = Idle
       \/ /\ disk \in DeliveryDirectories
          /\ proc = DeliveryMain(disk)
          /\ hlog = Idle
       \/ /\ disk = Idle /\ proc = Idle
          /\ \E program \in LogPrograms, tests \in BOOLEAN :
                \E file \in OldLogs(program) :
                   \E now \in RunTimes(file) :
                      hlog = LogRun(program, file, now, tests)

\* main() of the category monitor.
CategoryNext ==
    \/ LoadPrevious
    \/ LoadHistory
    \/ \E resp \in MenuResponses : FetchMenu(resp)
    \/ RunMonitor
    \/ CompareCategories
    \/ UpdateHistory
    \/ SaveHistoryOpen
    \/ SaveHistoryDump
    \/ SaveJson
    \/ SaveHtml
    \/ BackupCsv
    \/ SaveCsvOpen
    \/ SaveCsvRows
    \/ SaveTxt
    \/ Crash

MainNext ==
    \/ CategoryNext
    \/ LoadTables
    \/ RunDelivery
    \/ LoadLog
    \/ AppendPagespeed
    \/ AppendDashboard

MainSpec == MainInit /\ [][MainNext]_vars

\* Consecutive runs, the first in an empty directory.
RunsInit ==
    /\ EngineIdle
    /\ adapter = Idle /\ walk = Idle /\ hlog = Idle
    /\ disk = [csv |-> Absent, history |-> Absent, backup |-> Absent,
               report_json |-> Absent, index_html |-> Absent, txt |-> Absent]
    /\ proc = CategoryMain(1, disk, None)

RunsNext == CategoryNext \/ NextRun

RunsSpec == RunsInit /\ [][RunsNext]_vars

----------------------------------------------------------------------------
\* Properties of main() and of the files

\* main of the category monitor is the program of the state.
IsCategory == proc # Idle /\ proc.program = "category"
IsDelivery == proc # Idle /\ proc.program = "delivery"
IsLog == hlog # Idle

\* The ids of a menu, as the id strings of the snapshot.
MenuIds(links) ==
    {StrId(links[i].id) : i \in {j \in DOMAIN links : links[j].id # None}}

\* C14: run n+1 diffs against the ids of the targets of run n, as the
\* snapshot of run n holds them: after a run that ran to its end, the
\* previous ids of the next run are the ids of that run's menu, and a
\* target with an id that both menus hold is listed neither as new nor as
\* removed, whatever failed per target in either run.
C14_DiffAgainstLastRun ==
    (/\ IsCategory
     /\ proc.prev # None
     /\ proc.prev[1].ended = "done"
     /\ proc.comparison # None) =>
        /\ DOMAIN proc.previous_categories = MenuIds(proc.prev[1].links)
        /\ \A id \in MenuIds(proc.prev[1].links) \cap MenuIds(proc.links) :
              id \notin NewIds /\ id \notin RemovedIds

\* The category monitor has written its history file to the end.
CategoryLogWritten ==
    /\ IsCategory
    /\ "history" \in proc.attempted
    /\ "history" \notin proc.errors
    /\ disk.history.state = "complete"

\* C15: after any run, a history file that holds a log holds at most its
\* maximum number of entries (30, 90, 100, 100), whatever the length of
\* the log the run loaded.
C15_HistoryBound ==
    /\ (/\ IsCategory
        /\ proc.pc \in {"done", "aborted", "crashed"}
        /\ disk.history.state = "complete") =>
           Len(disk.history.content) <= CategoryHistoryMax
    /\ (/\ IsLog
        /\ hlog.pc \in {"done", "aborted"}
        /\ hlog.file.state = "complete") =>
           Len(hlog.file.content) <= LogMax(hlog.program)

\* C15 as amended: every history file a run writes holds at most its
\* maximum number of entries, whatever the length of the log the run
\* loaded.
C15_WrittenLogBounded ==
    /\ CategoryLogWritten =>
          Len(disk.history.content) <= CategoryHistoryMax
    /\ (IsLog /\ hlog.written) =>
          Len(hlog.file.content) <= LogMax(hlog.program)

\* A log longer than its maximum was loaded and written back at the
\* maximum.
C15_Witness ==
    /\ CategoryLogWritten
    /\ proc.start.history.state = "complete"
    /\ Len(proc.start.history.content) > CategoryHistoryMax
    /\ Len(disk.history.content) = CategoryHistoryMax

\* C16: appending to a log of exactly the maximum number of entries N
\* writes a log of N entries: the old log without its first entry, in its
\* order, followed by the new entry.
C16_FifoEviction ==
    /\ (/\ CategoryLogWritten
        /\ proc.start.history.state = "complete"
        /\ Len(proc.start.history.content) = CategoryHistoryMax) =>
           /\ Len(disk.history.content) = CategoryHistoryMax
           /\ SubSeq(disk.history.content, 1, CategoryHistoryMax - 1)
                 = Tail(proc.start.history.content)
           /\ disk.history.content[CategoryHistoryMax].timestamp
                 = Now(proc.run)
    /\ (/\ IsLog
        /\ hlog.written
        /\ hlog.start.state = "complete"
        /\ Len(hlog.start.content) = LogMax(hlog.program)) =>
           hlog.file.content = Append(Tail(hlog.start.content), hlog.now)

\* The PageSpeed log held 90 runs and the run was appended.
C16_Witness ==
    /\ IsLog
    /\ hlog.program = "pagespeed"
    /\ hlog.written
    /\ hlog.start.state = "complete"
    /\ Len(hlog.start.content) = PagespeedHistoryMax
    /\ hlog.file.content[PagespeedHistoryMax] = hlog.now

\* C17: when the process is killed, the history file is the complete log
\* the run found or the complete new log.
C17_HistoryWriteAtomic ==
    (IsCategory /\ proc.pc = "crashed") =>
        \/ disk.history = proc.start.history
        \/ disk.history = File(proc.history)

\* The writes of main, after the history, that can fail the run.
LaterWrites == {"report_json", "index_html", "csv", "txt"}

\* C18: a failed history write does not keep the snapshot from being
\* written (the run ends aborted only for another failure, and without one
\* it ends with the new snapshot on disk); when the snapshot or an output
\* before it fails, the history write was attempted; both failures are
\* reported.
C18_IndependentFailures ==
    IsCategory =>
        /\ (proc.pc = "aborted" /\ "history" \in proc.errors) =>
              proc.errors \cap LaterWrites # {}
        /\ (proc.pc = "done" /\ "history" \in proc.errors) =>
              disk.csv = File(CsvRows(proc.resultados))
        /\ proc.errors \cap LaterWrites # {} =>
              "history" \in proc.attempted

\* The history write failed and the run went on to write the snapshot of
\* its results.
C18_Witness ==
    /\ IsCategory
    /\ proc.pc = "done"
    /\ "history" \in proc.errors
    /\ proc.resultados # <<>>
    /\ disk.csv = File(CsvRows(proc.resultados))

\* The menu could not be fetched: the connection failed or the status was
\* not 2xx.
MenuUnavailable(resp) ==
    resp.exc # "" \/ resp.status < 200 \/ resp.status > 299

\* C19: when the menu cannot be fetched, or a reference table of the
\* delivery monitor cannot be opened, the run aborts before a probe is
\* submitted and no file of the directory is changed.
C19_EnumerationFailureIsFatal ==
    /\ (IsCategory /\ proc.menu # None /\ MenuUnavailable(proc.menu[1])) =>
          /\ proc.pc = "aborted"
          /\ ~proc.submitted
          /\ proc.attempted = {}
          /\ disk = proc.start
    /\ (IsDelivery /\ disk.tables # Tables /\ proc.pc # "load_tables") =>
          /\ proc.pc \in {"aborted", "crashed"}
          /\ ~proc.submitted
          /\ proc.attempted = {}
          /\ disk = proc.start

\* The menu answered 503 in a directory that holds a snapshot and a log.
C19_Witness ==
    /\ IsCategory
    /\ proc.menu # None
    /\ proc.menu[1].exc = ""
    /\ proc.menu[1].status = 503
    /\ proc.pc = "aborted"
    /\ disk.csv.state = "complete"
    /\ disk.history.state = "complete"

----------------------------------------------------------------------------
\* walk_links (monitor.py lines 89-105)

\* Largest number of nodes of a menu.
MaxNodes == 3

\* The JSON values a node holds under "link" / "Link": null, a string, or
\* a number other than zero, kept by its decimal form.
JNull == [type |-> "null", repr |-> ""]
JStr(s) == [type |-> "str", repr |-> s]
JInt(s) == [type |-> "int", repr |-> s]

\* bool(v): null and the empty string are false.
Bool(v) == v.type # "null" /\ v.repr # ""

\* a or b
Or(a, b) == IF Bool(a) THEN a ELSE b

\* str(v)
str(v) == v.repr

\* What a node holds under "link", and under "Link" when it has no "link".
LinkValues == {JNull, JStr(""), JStr("1"), JInt("1")}
UpperLinkValues == {JStr("a")}

\* A node of the menu with its children; the link is under one of the two
\* spellings of the key.
Node(link, Link, childs) ==
    [id |-> 1, nombre |-> "n", link |-> link, Link |-> Link,
     childCategories |-> childs]

\* The menus of exactly n nodes, of any shape.
RECURSIVE Forests(_)
Forests(n) ==
    IF n = 0 THEN {<<>>}
    ELSE UNION {
           {<<Node(l, JNull, kids)>> \o rest :
               l \in LinkValues, kids \in Forests(k),
               rest \in Forests(n - 1 - k)}
           \cup
           {<<Node(JNull, l, kids)>> \o rest :
               l \in UpperLinkValues, kids \in Forests(k),
               rest \in Forests(n - 1 - k)}
           : k \in 0..(n - 1)}

Menus == UNION {Forests(n) : n \in 0..MaxNodes}

\* walk_links lines 90-91 of call number call on nodes.
WalkStart(nodes, source, returned) ==
    [pc |-> "while", nodes |-> nodes, source |-> source,
     stack |-> nodes, out |-> <<>>, seen |-> {}, unique |-> <<>>, i |-> 0,
     returned |-> returned]

WalkInit ==
    /\ EngineIdle
    /\ adapter = Idle /\ disk = Idle /\ proc = Idle /\ hlog = Idle
    /\ \E nodes \in Menus : walk = WalkStart(nodes, nodes, <<>>)

\* A version of walk_links that does not descend.
ChildsNone(n) == <<>>

\* line 97: the children of a node.
Childs(n) == n.childCategories

\* lines 92-99, one turn of the while loop: the last node of the stack is
\* popped, its link appended to out and its children pushed.
WalkPop ==
    /\ walk.pc = "while"
    /\ walk.stack # <<>>
    /\ LET n == walk.stack[Len(walk.stack)]
           link == Or(n.link, n.Link)
       IN  walk' = [walk EXCEPT
                !.stack = SubSeq(@, 1, Len(@) - 1) \o Childs(n),
                !.out = IF Bool(link)
                        THEN Append(@, [id |-> n.id, nombre |-> n.nombre,
                                        link |-> str(link)])
                        ELSE @]
    /\ UNCHANGED <<engineVars, adapter, disk, proc, hlog>>

\* line 92 with an empty stack, line 100.
WalkLoopEnds ==
    /\ walk.pc = "while"
    /\ walk.stack = <<>>
    /\ walk' = [walk EXCEPT !.pc = "for", !.i = 1]
    /\ UNCHANGED <<engineVars, adapter, disk, proc, hlog>>

\* lines 101-104, one turn of the for loop.
WalkDedupe ==
    /\ walk.pc = "for"
    /\ walk.i <= Len(walk.out)
    /\ LET it == walk.out[walk.i]
       IN  walk' = IF it.link \notin walk.seen
                   THEN [walk EXCEPT !.seen = @ \cup {it.link},
                                     !.unique = Append(@, it),
                                     !.i = @ + 1]
                   ELSE [walk EXCEPT !.i = @ + 1]
    /\ UNCHANGED <<engineVars, adapter, disk, proc, hlog>>

\* line 105
WalkReturn ==
    /\ walk.pc = "for"
    /\ walk.i > Len(walk.out)
    /\ walk' = [walk EXCEPT !.pc = "returned",
                            !.returned = Append(@, walk.unique)]
    /\ UNCHANGED <<engineVars, adapter, disk, proc, hlog>>

\* walk_links is called once more on the same menu.
WalkAgain ==
    /\ walk.pc = "returned"
    /\ Len(walk.returned) < 2
    /\ walk' = WalkStart(walk.nodes, walk.source, walk.returned)
    /\ UNCHANGED <<engineVars, adapter, disk, proc, hlog>>

WalkNext ==
    \/ WalkPop \/ WalkLoopEnds \/ WalkDedupe \/ WalkReturn \/ WalkAgain

\* The loops of walk_links run on their own: no turn waits for anything.
WalkSpec == WalkInit /\ [][WalkNext]_vars /\ WF_vars(WalkNext)

\* The nodes of a menu, at any depth.
RECURSIVE NodesOf(_)
NodesOf(forest) ==
    UNION {{forest[i]} \cup NodesOf(forest[i].childCategories) :
             i \in DOMAIN forest}

\* The link of a node: the value under "link", or else under "Link".
LinkOf(n) == IF n.link # JNull THEN n.link ELSE n.Link

\* The nodes of the source that hold a link that is not empty.
LinkedNodes == {n \in NodesOf(walk.source) : LinkOf(n).repr # ""}

WalkReturned(u) ==
    /\ {u[i].link : i \in DOMAIN u} = {LinkOf(n).repr : n \in LinkedNodes}
    /\ \A i, j \in DOMAIN u : u[i].link = u[j].link => i = j
    /\ \A i \in DOMAIN u :
          \E n \in LinkedNodes :
             u[i] = [id |-> n.id, nombre |-> n.nombre,
                     link |-> LinkOf(n).repr]

WalkSafe ==
    /\ walk.nodes = walk.source
    /\ walk.pc = "returned" => WalkReturned(walk.unique)
    /\ Len(walk.returned) = 2 => walk.returned[1] = walk.returned[2]

\* C20: on every menu walk_links terminates, and so does a second call on
\* the same menu; what it returns holds exactly one target for each
\* distinct link that is not empty of a node at any depth, and nothing
\* else; the second call returns what the first returned, and the menu is
\* as it was.
C20_WalkLinks ==
    /\ [](walk # Idle => WalkSafe)
    /\ (walk # Idle) ~> (walk.pc = "returned" /\ Len(walk.returned) = 2)

\* A menu with a child that holds a link, and two nodes with one link.
C20_Witness ==
    /\ walk # Idle
    /\ walk.pc = "returned"
    /\ Len(walk.out) > Len(walk.unique)
    /\ Len(walk.unique) = 2
    /\ \E i \in DOMAIN walk.source :
          \E k \in DOMAIN walk.source[i].childCategories :
             Bool(LinkOf(walk.source[i].childCategories[k]))

----------------------------------------------------------------------------
\* Properties of the summaries (Spec)

\* The run returned its report.
Reported == pc = "done" /\ report # None

\* 100 * available / (available + unavailable) in tenths of a percent, 0
\* without a known result.
HealthOf(available, unavailable) ==
    IF available + unavailable > 0
    THEN Pct(available, available + unavailable)
    ELSE 0

\* C21: the reported score is 100 * available / (available +
\* unavailable), results of unknown availability left out of the
\* denominator, and 0 when that denominator is 0: health_score over
\* con_productos and sin_productos, cobertura_pct over disponibles and
\* no_disponibles.
C21_HealthScore ==
    Reported =>
        LET s == report[1].summary
        IN  IF monitor = "category"
            THEN s.health_score = HealthOf(s.con_productos, s.sin_productos)
            ELSE s.cobertura_pct = HealthOf(s.disponibles, s.no_disponibles)

\* The sum of a field of the sub-summaries of the regions regs.
RECURSIVE SumRegions(_, _, _)
SumRegions(stats, regs, field) ==
    IF regs = {} THEN 0
    ELSE LET reg == CHOOSE x \in regs : TRUE
         IN  stats[reg][field] + SumRegions(stats, regs \ {reg}, field)

\* C22: in the report of run_delivery_monitor every region has
\* total = disponibles + no_disponibles + errores, as many results as the
\* list holds of the region, and over all regions the sums of total,
\* disponibles, no_disponibles and errores are total_comunas, disponibles,
\* no_disponibles and errores of the summary, synthesized error results
\* included.
C22_RegionsSumToSummary ==
    (Reported /\ monitor = "delivery") =>
        LET s == report[1].summary
            stats == report[1].stats_por_region
            regs == DOMAIN stats
        IN  /\ regs = {results[i].id_region : i \in DOMAIN results}
            /\ \A reg \in regs :
                  /\ stats[reg].total =
                        Cardinality({i \in DOMAIN results :
                                        results[i].id_region = reg})
                  /\ stats[reg].total =
                        stats[reg].disponibles + stats[reg].no_disponibles
                        + stats[reg].errores
            /\ SumRegions(stats, regs, "total") = s.total_comunas
            /\ SumRegions(stats, regs, "disponibles") = s.disponibles
            /\ SumRegions(stats, regs, "no_disponibles") = s.no_disponibles
            /\ SumRegions(stats, regs, "errores") = s.errores

\* Two regions, one with a synthesized error result, which has no price
\* fields, and one with an available comuna.
C22_Witness ==
    /\ Reported
    /\ monitor = "delivery"
    /\ Cardinality(DOMAIN report[1].stats_por_region) = 2
    /\ \E i, j \in DOMAIN results :
          /\ results[i].estado = "Error"
          /\ "precio_despacho" \notin DOMAIN results[i]
          /\ results[j].estado = "Disponible"

----------------------------------------------------------------------------
\* The summary of run_delivery_monitor on its own (SummarySpec)

\* Largest number of results of a summarized list.
MaxResults == 3

\* What get_costo_despacho can return as costo: nothing, 0 (free), or a
\* price.
CostoValues == {None, Some(0), Some(2), Some(3)}

\* The results check_comuna can return for a task and the result
\* synthesized for it: 'Error', 'No disponible', or 'Disponible' with the
\* (costo, gratis) of get_costo_despacho.
ResultsFor(task) ==
    {ErrorResult(task, "AttributeError")}
    \cup
    {[id_comuna |-> task.id_comuna, comuna |-> task.comuna,
      id_region |-> task.id_region, region |-> REGIONES(task.id_region),
      estado |-> "No disponible", dias_entrega |-> None,
      precio_despacho |-> None, despacho_gratis |-> FALSE,
      http_code |-> 200]}
    \cup
    {[id_comuna |-> task.id_comuna, comuna |-> task.comuna,
      id_region |-> task.id_region, region |-> REGIONES(task.id_region),
      estado |-> "Disponible", dias_entrega |-> Some(2),
      precio_despacho |-> costo, despacho_gratis |-> costo = Some(0),
      http_code |-> 200] : costo \in CostoValues}

\* The lists of results of the first n tasks.
ResultLists(n) ==
    {res \in [1..n -> UNION {ResultsFor(Comuna(i)) : i \in 1..n}] :
        \A i \in 1..n : res[i].id_comuna = i}

SummaryInit ==
    /\ EngineIdle
    /\ adapter = Idle /\ walk = Idle /\ disk = Idle /\ hlog = Idle
    /\ \E res \in UNION {ResultLists(n) : n \in 0..MaxResults} :
          proc = [pc |-> "collected", results |-> res, report |-> None]

\* run_delivery_monitor lines 331-411: sort, summary and return.
SummarizeDelivery ==
    /\ proc.pc = "collected"
    /\ \E sorted \in {SortResults(proc.results)} :
          proc' = [proc EXCEPT
                     !.pc = "returned",
                     !.results = sorted,
                     !.report =
                        Some([summary |-> DeliverySummary(sorted),
                              stats_por_region |->
                                  [reg \in {sorted[i].id_region :
                                               i \in DOMAIN sorted} |->
                                      RegionStats(sorted, reg)]])]
    /\ UNCHANGED <<engineVars, adapter, walk, disk, hlog>>

SummaryNext == SummarizeDelivery

SummarySpec == SummaryInit /\ [][SummaryNext]_vars

\* The prices that are measurements: of the available results that hold a
\* price greater than 0.
Measured(res) ==
    {i \in DOMAIN res :
        /\ res[i].estado = "Disponible"
        /\ "precio_despacho" \in DOMAIN res[i]
        /\ res[i].precio_despacho # None
        /\ res[i].precio_despacho[1] > 0}

\* C23: precio_min and precio_max are the least and the greatest price of
\* the available results whose price is present and greater than 0, and
\* precio_promedio their rounded mean: with such a result
\* 0 < precio_min <= precio_promedio <= precio_max, without one all three
\* are 0; the available results with price 0 are counted in
\* despacho_gratis.
C23_PriceStatistics ==
    (proc.pc = "returned" /\ "report" \in DOMAIN proc) =>
        LET s == proc.report[1].summary
            res == proc.results
            precios == {res[i].precio_despacho[1] : i \in Measured(res)}
        IN  /\ IF precios = {}
               THEN s.precio_min = 0 /\ s.precio_promedio = 0
                    /\ s.precio_max = 0
               ELSE /\ s.precio_min \in precios
                    /\ s.precio_max \in precios
                    /\ \A p \in precios : s.precio_min <= p /\ p <= s.precio_max
                    /\ 0 < s.precio_min
                    /\ s.precio_min <= s.precio_promedio
                    /\ s.precio_promedio <= s.precio_max
                    /\ 2 * Cardinality(Measured(res)) * s.precio_promedio
                         - 2 * SumOver(Measured(res), PrecioOf(res))
                         \in -Cardinality(Measured(res))
                             ..Cardinality(Measured(res))
            /\ s.despacho_gratis =
                  Cardinality({i \in DOMAIN res :
                                  /\ res[i].estado = "Disponible"
                                  /\ res[i].precio_despacho = Some(0)})

\* Two different prices, a free despatch and nothing else: the mean lies
\* between the two prices.
C23_Witness ==
    /\ proc.pc = "returned"
    /\ "report" \in DOMAIN proc
    /\ proc.report[1].summary.precio_min = 2
    /\ proc.report[1].summary.precio_max = 3
    /\ proc.report[1].summary.precio_promedio = 2
    /\ proc.report[1].summary.despacho_gratis = 1

----------------------------------------------------------------------------
\* main() of the category monitor around the pool of run_monitor
\* (PipelineSpec): the calling thread, the worker threads and the files

\* The directories of a run: empty, or with the snapshot and the full log
\* of earlier runs.
PipelineDirectories ==
    {[csv |-> Absent, history |-> Absent, backup |-> Absent,
      report_json |-> Absent, index_html |-> Absent, txt |-> Absent],
     [csv |-> File(CsvRows(<<[id |-> Some(1), link |-> 1, nombre |-> 1]>>)),
      history |-> File(OldLog(CategoryHistoryMax)), backup |-> Absent,
      report_json |-> File(0), index_html |-> File(0), txt |-> File(0)]}

\* main up to the pool of run_monitor: the snapshot and the log are
\* loaded, the menu is fetched and walked, nothing is submitted yet.
PipelineInit ==
    /\ monitor = "category"
    /\ workers \in 1..MaxWorkers
    /\ \E n \in 0..MaxTargets : targets \in Links(n)
    /\ pc = "submit"
    /\ queue = <<>>
    /\ numThreads = 0
    /\ st = [t \in DOMAIN targets |-> "new"]
    /\ calls = [t \in DOMAIN targets |-> NoCalls]
    /\ fut = [t \in DOMAIN targets |-> Pending]
    /\ yielded = {}
    /\ results = <<>>
    /\ report = None
    /\ adapter = Idle /\ walk = Idle /\ hlog = Idle
    /\ disk \in PipelineDirectories
    /\ LET links == [i \in DOMAIN targets |->
                        [id |-> targets[i].id, link |-> i, nombre |-> i]]
       IN  proc = [CategoryMain(1, disk, None) EXCEPT
                      !.pc = "run_monitor",
                      !.previous_categories =
                          load_previous_categories(disk.csv),
                      !.history = load_category_history(disk.history),
                      !.menu = Some(Response(200, links)),
                      !.links = links]

\* main line 952: run_monitor returns its report to main.
RunMonitorReturns ==
    /\ proc.pc = "run_monitor"
    /\ pc = "done"
    /\ proc' = [proc EXCEPT
                   !.pc = "compare",
                   !.submitted = TRUE,
                   !.resultados =
                       [i \in DOMAIN results |->
                           ResultRow(proc.links, results[i])]]
    /\ UNCHANGED <<engineVars, adapter, walk, disk, hlog>>

PipelineNext ==
    \/ \E t \in DOMAIN targets : Submit(t)
    \/ AllSubmitted
    \/ \E t \in DOMAIN targets : StartTask(t)
    \/ \E t \in DOMAIN targets : Probe(t)
    \/ \E t \in DOMAIN targets : CheckProducts(t)
    \/ \E t \in DOMAIN targets : Collect(t)
    \/ Summarize
    \/ RunMonitorReturns
    \/ CompareCategories
    \/ UpdateHistory
    \/ SaveHistoryOpen
    \/ SaveHistoryDump
    \/ SaveJson
    \/ SaveHtml
    \/ BackupCsv
    \/ SaveCsvOpen
    \/ SaveCsvRows
    \/ SaveTxt

PipelineSpec == PipelineInit /\ [][PipelineNext]_vars

\* Every submitted task has finished and the pool has been left.
BarrierPassed ==
    /\ pc = "done"
    /\ \A t \in DOMAIN targets : st[t] = "finished"
    /\ InFlight = {}

\* The positions of main at which it writes a file.
WritePositions ==
    {"save_history", "dump_history", "save_json", "save_html", "backup",
     "save_csv", "write_rows", "save_txt"}

\* The calling thread writes only behind the barrier and opens the log and
\* the snapshot once; a run that ends without a failed write has written
\* both.
WritesOnce ==
    (IsCategory /\ pc # "idle") =>
        /\ proc.pc \in WritePositions => BarrierPassed
        /\ proc.pc = "save_history" => "history" \notin proc.attempted
        /\ proc.pc = "save_csv" => "csv" \notin proc.attempted
        /\ (proc.pc = "done" /\ proc.errors = {}) =>
              /\ {"history", "csv"} \subseteq proc.attempted
              /\ disk.history = File(proc.history)
              /\ disk.csv = File(CsvRows(proc.resultados))

\* A step that changes a file is a step of main at a write position, the
\* log at its two and the snapshot at its two, and moves no worker; a step
\* that changes the result list is a step of the calling thread in its
\* as_completed loop and moves no worker.
WriterSteps ==
    /\ disk' # disk =>
          /\ proc.pc \in WritePositions
          /\ proc'.pc # proc.pc
          /\ UNCHANGED engineVars
    /\ disk'.history # disk.history =>
          proc.pc \in {"save_history", "dump_history"}
    /\ disk'.csv # disk.csv => proc.pc \in {"save_csv", "write_rows"}
    /\ results' # results =>
          /\ pc = "collect"
          /\ yielded' # yielded
          /\ UNCHANGED <<st, fut, calls, queue, numThreads, disk>>

\* C24: in a run of the category monitor the snapshot and the log are
\* each written once, by the calling thread, and only after every worker
\* task has completed; no worker writes a file or appends to the result
\* list.
C24_SingleWriterAfterBarrier ==
    /\ []WritesOnce
    /\ [][(IsCategory /\ pc # "idle") => WriterSteps]_vars

\* Two worker threads ran two probes and main wrote the log and the
\* snapshot of both results.
C24_Witness ==
    /\ IsCategory
    /\ pc = "done"
    /\ proc.pc = "done"
    /\ numThreads = 2
    /\ Len(results) = 2
    /\ disk.history = File(proc.history)
    /\ disk.csv = File(CsvRows(proc.resultados))
    /\ Len(disk.csv.content) = 2

----------------------------------------------------------------------------
\* The cards of the category dashboard (generate_html_dashboard lines
\* 530-545, CardsSpec)

\* Largest number of entries of a history shown by the dashboard.
MaxEntries == 2

\* The ids of the categories of one 'added' or 'removed' list.
IdLists == {<<>>, <<1>>, <<1, 2>>, <<2, 1>>, <<1, 1>>}

\* The entry update_category_history wrote at time t for these ids.
EntryAt(t, added, removed) ==
    [timestamp |-> t,
     added |-> [i \in DOMAIN added |->
                   [id |-> added[i], nombre |-> added[i], timestamp |-> t]],
     removed |-> [i \in DOMAIN removed |->
                     [id |-> removed[i], nombre |-> removed[i],
                      timestamp |-> t]]]

\* The histories of n entries, written at times 1..n.
Histories(n) ==
    {[t \in 1..n |-> EntryAt(t, lists[t][1], lists[t][2])] :
        lists \in [1..n -> IdLists \X IdLists]}

CardsInit ==
    /\ EngineIdle
    /\ adapter = Idle /\ walk = Idle /\ disk = Idle /\ hlog = Idle
    /\ \E history \in UNION {Histories(n) : n \in 0..MaxEntries} :
          proc = [pc |-> "cards", history |-> history, entry |-> 1,
                  all_added |-> <<>>, all_removed |-> <<>>]

\* A version of the test of lines 541 and 544 that finds no duplicate.
ListedNever(all, cat) == FALSE

\* any(c["id"] == cat["id"] for c in all)
Listed(all, cat) == \E i \in DOMAIN all : all[i].id = cat.id

\* lines 540-542 for the first k categories of a list.
RECURSIVE AppendUnlisted(_, _, _)
AppendUnlisted(all, cats, k) ==
    IF k = 0 THEN all
    ELSE LET before == AppendUnlisted(all, cats, k - 1)
         IN  IF Listed(before, cats[k]) THEN before
             ELSE Append(before, cats[k])

\* lines 539-545, one turn of the loop over the entries.
CardsEntry ==
    /\ proc.pc = "cards"
    /\ proc.entry <= Len(proc.history)
    /\ LET entry == proc.history[proc.entry]
       IN  proc' = [proc EXCEPT
                      !.entry = @ + 1,
                      !.all_added =
                          AppendUnlisted(@, entry.added, Len(entry.added)),
                      !.all_removed =
                          AppendUnlisted(@, entry.removed,
                                         Len(entry.removed))]
    /\ UNCHANGED <<engineVars, adapter, walk, disk, hlog>>

\* The loop is over: the cards show len(all_added) and len(all_removed).
CardsShown ==
    /\ proc.pc = "cards"
    /\ proc.entry > Len(proc.history)
    /\ proc' = [proc EXCEPT !.pc = "cards_shown"]
    /\ UNCHANGED <<engineVars, adapter, walk, disk, hlog>>

CardsNext == CardsEntry \/ CardsShown

CardsSpec == CardsInit /\ [][CardsNext]_vars

\* all holds exactly the first occurrence, in log order, of every id of
\* the lists key of the history.
FirstOccurrences(all, history, key) ==
    /\ {all[i].id : i \in DOMAIN all} =
          UNION {{history[e][key][i].id : i \in DOMAIN history[e][key]} :
                    e \in DOMAIN history}
    /\ \A i, j \in DOMAIN all : all[i].id = all[j].id => i = j
    /\ \A i \in DOMAIN all :
          \E e \in DOMAIN history :
             \E k \in DOMAIN history[e][key] :
                /\ history[e][key][k] = all[i]
                /\ \A e2 \in 1..e :
                      \A k2 \in DOMAIN history[e2][key] :
                         history[e2][key][k2].id = all[i].id =>
                            (e2 = e /\ k2 >= k)

\* C25: all_added and all_removed hold exactly one record for each
\* distinct id of the 'added' and 'removed' lists of the entries of the
\* history, the first occurrence in log order; the cards show their
\* lengths.
C25_CardsOverWholeHistory ==
    (proc.pc = "cards_shown") =>
        /\ FirstOccurrences(proc.all_added, proc.history, "added")
        /\ FirstOccurrences(proc.all_removed, proc.history, "removed")

\* Category 1 was added by both entries and category 2 by the last one:
\* the card counts two, and category 1 with the time of the first entry.
C25_Witness ==
    /\ proc.pc = "cards_shown"
    /\ Len(proc.history) = 2
    /\ proc.history[1].added = EntryAt(1, <<1>>, <<>>).added
    /\ proc.history[2].added = EntryAt(2, <<2, 1>>, <<>>).added
    /\ Len(proc.all_added) = 2
    /\ proc.all_added[1].timestamp = 1
    /\ proc.all_added[2].id = 2

----------------------------------------------------------------------------
\* Consecutive runs of the payment and login dashboards on their history
\* file (DashboardSpec)

\* Largest number of dashboard runs after the history the model starts
\* with.
MaxDashboardRuns == 3

\* generate_html shows the last 14 runs of the history.
HistoryRowsShown == 14

Dashboards == {"payment", "login"}

\* A timestamp, and the n-th execution with its timestamp; tests tells
\* whether its result list is non-empty.
Stamp(minute, second) == [minute |-> minute, second |-> second]
Execution(n, ts, tests) == [n |-> n, timestamp |-> ts, tests |-> tests]

\* dt.replace(second=0, microsecond=0)
MinuteOf(ts) == [ts EXCEPT !.second = 0]

\* The entry main appends for an execution.
EntryOf(x) == [n |-> x.n, timestamp |-> x.timestamp]

\* n executions with results, one a minute, and the history they leave.
SeedExecutions(n) == [k \in 1..n |-> Execution(k, Stamp(k, 0), TRUE)]
SeedLengths(program) ==
    {0, HistoryRowsShown - 1, HistoryRowsShown, HistoryRowsShown + 1,
     LogMax(program) - 1, LogMax(program)}

DashboardInit ==
    /\ EngineIdle
    /\ adapter = Idle /\ walk = Idle /\ disk = Idle /\ proc = Idle
    /\ \E program \in Dashboards :
          \E n \in SeedLengths(program) :
             hlog = [program |-> program, pc |-> "start", seeds |-> n,
                     performed |-> SeedExecutions(n),
                     file |-> [k \in 1..n |-> EntryOf(SeedExecutions(n)[k])],
                     results |-> None, loaded |-> <<>>, history |-> <<>>,
                     rewritten |-> FALSE, all_runs |-> <<>>, total |-> 0]

\* The timestamps the next execution can have: not before the last one.
NextStamps(performed) ==
    IF performed = <<>> THEN {Stamp(1, 0), Stamp(1, 30)}
    ELSE LET last == performed[Len(performed)].timestamp
         IN  {Stamp(last.minute, sec) : sec \in {0, 30} \ 0..(last.second - 1)}
             \cup {Stamp(last.minute + 1, sec) : sec \in {0, 30}}

\* The dashboard is started on the report of a test run (main: results
\* are loaded).
StartDashboard ==
    /\ hlog.pc \in {"start", "done"}
    /\ Len(hlog.performed) < hlog.seeds + MaxDashboardRuns
    /\ \E ts \in NextStamps(hlog.performed), tests \in BOOLEAN :
          LET x == Execution(Len(hlog.performed) + 1, ts, tests)
          IN  hlog' = [hlog EXCEPT
                          !.pc = "load_history",
                          !.performed = Append(@, x),
                          !.results = Some(x),
                          !.rewritten = FALSE,
                          !.all_runs = <<>>, !.total = 0]
    /\ UNCHANGED <<engineVars, adapter, walk, disk, proc>>

\* payment main line 749, login main line 821.
LoadDashboardHistory ==
    /\ hlog.pc = "load_history"
    /\ hlog' = [hlog EXCEPT !.pc = "append", !.loaded = hlog.file,
                            !.history = hlog.file]
    /\ UNCHANGED <<engineVars, adapter, walk, disk, proc>>

\* A version of the test of the minute that finds no entry.
ExistingNever(history, ts) == FALSE

\* payment main lines 755-765, login main lines 828-838: an entry of the
\* history lies in the minute of ts.
Existing(history, ts) ==
    \E i \in DOMAIN history :
       MinuteOf(history[i].timestamp) = MinuteOf(ts)

\* payment main lines 751-777, login main lines 824-851: the execution is
\* appended and the history saved, or neither.
AppendIfNew ==
    /\ hlog.pc = "append"
    /\ LET x == hlog.results[1]
           history == Append(hlog.history, EntryOf(x))
           trimmed == LastN(history, LogMax(hlog.program))
       IN  hlog' = IF x.tests /\ ~Existing(hlog.history, x.timestamp)
                   THEN [hlog EXCEPT
                            !.pc = "html",
                            !.history = IF hlog.program = "login"
                                        THEN trimmed ELSE history,
                            !.file = trimmed,
                            !.rewritten = TRUE]
                   ELSE [hlog EXCEPT !.pc = "html"]
    /\ UNCHANGED <<engineVars, adapter, walk, disk, proc>>

\* reversed(seq)
Reversed(seq) == [i \in DOMAIN seq |-> seq[Len(seq) + 1 - i]]

\* login generate_html lines 315-327 and 681, called with the history main
\* holds (login main line 854); the payment dashboard is written.
GenerateHtml ==
    /\ hlog.pc = "html"
    /\ hlog' = IF hlog.program = "login"
               THEN [hlog EXCEPT
                        !.pc = "done",
                        !.all_runs =
                            <<EntryOf(hlog.results[1])>>
                            \o Reversed(LastN(hlog.history,
                                              HistoryRowsShown)),
                        !.total = Len(hlog.history) + 1]
               ELSE [hlog EXCEPT !.pc = "done"]
    /\ UNCHANGED <<engineVars, adapter, walk, disk, proc>>

DashboardNext ==
    \/ StartDashboard
    \/ LoadDashboardHistory
    \/ AppendIfNew
    \/ GenerateHtml

DashboardSpec == DashboardInit /\ [][DashboardNext]_vars

\* The login dashboard has written its page.
LoginShown ==
    /\ hlog # Idle
    /\ "all_runs" \in DOMAIN hlog
    /\ hlog.program = "login"
    /\ hlog.pc = "done"

\* C26: the table of the login dashboard lists the current execution
\* first and then the min(k, 14) most recent of the k executions of the
\* history the run found, newest first, each execution once, and the
\* counter shows k + 1.
C26_LoginHistoryTable ==
    LoginShown =>
        /\ hlog.all_runs =
              <<EntryOf(hlog.results[1])>>
              \o Reversed(LastN(hlog.loaded, HistoryRowsShown))
        /\ \A i, j \in DOMAIN hlog.all_runs :
              hlog.all_runs[i] = hlog.all_runs[j] => i = j
        /\ hlog.total = Len(hlog.loaded) + 1

\* A dashboard runs on its history.  The entry of the n-th execution is
\* looked up by its n.
IsDashboard == hlog # Idle /\ "performed" \in DOMAIN hlog

\* No run of the dashboard is under way.
BetweenRuns == hlog.pc \in {"start", "done"}

\* After any sequence of runs the history file holds at most one entry of
\* a minute.
OneEntryPerMinute ==
    BetweenRuns =>
        \A i, j \in DOMAIN hlog.file :
           hlog.file[i].timestamp.minute = hlog.file[j].timestamp.minute
              => i = j

\* A run has rewritten the file exactly when it had results and the
\* history it loaded held no entry of its minute, and then with its entry
\* at the end; otherwise the file is as the run found it.
AppendedOnlyIfNew ==
    hlog.pc \in {"html", "done"} =>
        LET x == hlog.results[1]
        IN  /\ hlog.rewritten <=>
                  (x.tests /\ \A i \in DOMAIN hlog.loaded :
                                 MinuteOf(hlog.loaded[i].timestamp)
                                    # MinuteOf(x.timestamp))
            /\ hlog.file =
                  IF hlog.rewritten
                  THEN LastN(Append(hlog.loaded, EntryOf(x)),
                             LogMax(hlog.program))
                  ELSE hlog.loaded

\* C30: a dashboard run appends its result only if the result list is
\* not empty and no entry of the history lies in the same minute, and
\* otherwise does not rewrite the file; the file holds at most one entry
\* of a minute, and every entry is the first run of its minute.
C30_PerMinuteDeduplication ==
    IsDashboard =>
        /\ AppendedOnlyIfNew
        /\ OneEntryPerMinute
        /\ BetweenRuns => \A i \in DOMAIN hlog.file :
              \E p \in {hlog.file[i].n} \cap DOMAIN hlog.performed :
                 /\ EntryOf(hlog.performed[p]) = hlog.file[i]
                 /\ \A q \in 1..(p - 1) :
                       hlog.performed[q].timestamp.minute
                          # hlog.performed[p].timestamp.minute

\* C30 as amended: as C30, and every entry is the first run with a
\* non-empty result list of its minute.
C30_FirstRunWithResults ==
    IsDashboard =>
        /\ AppendedOnlyIfNew
        /\ OneEntryPerMinute
        /\ BetweenRuns => \A i \in DOMAIN hlog.file :
              \E p \in {hlog.file[i].n} \cap DOMAIN hlog.performed :
                 /\ EntryOf(hlog.performed[p]) = hlog.file[i]
                 /\ hlog.performed[p].tests
                 /\ \A q \in 1..(p - 1) :
                       hlog.performed[q].tests =>
                          hlog.performed[q].timestamp.minute
                             # hlog.performed[p].timestamp.minute

\* Two runs with results in one minute, thirty seconds apart: the first
\* is in the file, the second was not appended and left the file alone.
C30_Witness ==
    /\ IsDashboard
    /\ hlog.pc = "done"
    /\ ~hlog.rewritten
    /\ hlog.results[1].tests
    /\ hlog.results[1].timestamp.second = 30
    /\ hlog.file # <<>>
    /\ hlog.file[Len(hlog.file)].timestamp =
          MinuteOf(hlog.results[1].timestamp)
    /\ hlog.file[Len(hlog.file)].n = hlog.results[1].n - 1

----------------------------------------------------------------------------
\* OrderSpec: the run engine on every table of comunas, two rows of one
\* name in one region included (load_comunas keys the rows by id_comuna
\* and takes the names as they come).

TiedComuna(i) == [id_comuna |-> i, comuna |-> 9, id_region |-> 13]

TiedTasks(n) == IF n < 2 THEN {} ELSE {[i \in 1..n |-> TiedComuna(i)]}

OrderInit ==
    /\ monitor \in {"category", "delivery"}
    /\ workers \in 1..MaxWorkers
    /\ \E n \in 0..MaxTargets :
          targets \in IF monitor = "category" THEN Links(n)
                      ELSE Tasks(n) \cup TiedTasks(n)
    /\ pc = "submit"
    /\ queue = <<>>
    /\ numThreads = 0
    /\ st = [t \in DOMAIN targets |-> "new"]
    /\ calls = [t \in DOMAIN targets |-> NoCalls]
    /\ fut = [t \in DOMAIN targets |-> Pending]
    /\ yielded = {}
    /\ results = <<>>
    /\ report = None
    /\ adapter = Idle /\ walk = Idle /\ disk = Idle /\ proc = Idle
    /\ hlog = Idle

OrderSpec == OrderInit /\ [][Next]_vars

\* The result list of a run whose futures complete in the order of their
\* submission: the outcomes of the first n targets, collected in turn.
RECURSIVE CollectedUpTo(_)
CollectedUpTo(n) ==
    IF n = 0 THEN <<>>
    ELSE IF monitor = "category"
         THEN CollectCategory(CollectedUpTo(n - 1), targets[n], fut[n])
         ELSE CollectDelivery(CollectedUpTo(n - 1), targets[n], fut[n])

InTaskOrder == CollectedUpTo(Len(targets))

\* The summary (and for the delivery monitor the per-region statistics)
\* of the report is the one of the outcomes, in whatever order they were
\* collected.
SummaryOfOutcomes ==
    IF monitor = "category"
    THEN report[1].summary = CategorySummary(InTaskOrder)
    ELSE LET sorted == SortResults(InTaskOrder)
         IN  /\ report[1].summary = DeliverySummary(sorted)
             /\ report[1].stats_por_region =
                   [reg \in {sorted[i].id_region : i \in DOMAIN sorted} |->
                       RegionStats(sorted, reg)]

\* C29: for given outcomes of the probes, the summary of run_monitor and
\* the summary, stats_por_region and the ordered list of comunas of
\* run_delivery_monitor are the same in whatever order the futures
\* complete: they are the ones of the run that completes in task order.
C29_CompletionOrderIndependent ==
    Reported =>
        /\ SummaryOfOutcomes
        /\ monitor = "delivery" => results = SortResults(InTaskOrder)

\* No two targets have the same sort key.
KeysDistinct ==
    \A i, j \in DOMAIN targets :
       i # j => KeyLess(targets[i], targets[j])
                   \/ KeyLess(targets[j], targets[i])

\* The list is in the order of its keys and holds the results of the
\* outcomes, each as often.
SortedResultsOf(res, outcomes) ==
    /\ \A i, j \in DOMAIN res : i < j => ~KeyLess(res[j], res[i])
    /\ Len(res) = Len(outcomes)
    /\ \A i \in DOMAIN outcomes :
          Cardinality({j \in DOMAIN res : res[j] = outcomes[i]})
             = Cardinality({j \in DOMAIN outcomes :
                               outcomes[j] = outcomes[i]})

\* C29 as amended: the summaries are the same in whatever order the
\* futures complete; the list of comunas is in the order of (region id,
\* comuna name) and holds the same results, and is the same list when no
\* two comunas of a region have the same name.
C29_IndependentUpToTies ==
    Reported =>
        /\ SummaryOfOutcomes
        /\ monitor = "delivery" =>
              /\ SortedResultsOf(results, InTaskOrder)
              /\ KeysDistinct => results = SortResults(InTaskOrder)

\* A delivery run has returned whose second comuna, of the name and the
\* region of the first, completed first and stands first in the list.
C29_Witness ==
    /\ Reported
    /\ monitor = "delivery"
    /\ Len(results) = 2
    /\ ~KeyLess(results[1], results[2])
    /\ ~KeyLess(results[2], results[1])
    /\ results[1].id_comuna = 2
    /\ results[2].id_comuna = 1

----------------------------------------------------------------------------
\* Properties of the history entry and of the first run (MainSpec)

\* main of the category monitor has run to its end.
CategoryCompleted == IsCategory /\ proc.pc = "done"

\* The ids of a list of categories.
IdsOf(cats) == {cats[i].id : i \in DOMAIN cats}

\* C27: a completed run of the category monitor has appended exactly one
\* entry to the log it loaded (the log is cut to its last 30 entries), also
\* when nothing changed, and the file holds that log unless its write
\* failed; the entry's total_categories is the number of current targets
\* of the run, and the ids of its added and removed lists are the ids of
\* the lists new and removed of the run's comparison.
C27_OneEntryPerRun ==
    CategoryCompleted =>
        LET loaded == load_category_history(proc.start.history)
            log == proc.history
        IN  /\ Len(log) >= 1
            /\ log = LastN(Append(loaded, log[Len(log)]),
                           CategoryHistoryMax)
            /\ "history" \notin proc.errors => disk.history = File(log)
            /\ log[Len(log)].total_categories = Len(proc.links)
            /\ IdsOf(log[Len(log)].added)
                  = IdsOf(proc.comparison[1].new)
            /\ IdsOf(log[Len(log)].removed)
                  = IdsOf(proc.comparison[1].removed)

\* C28: in a directory without a snapshot the previous ids are empty,
\* every current target that has an id is listed as new and none as
\* removed, and the run that completes has written a snapshot and, unless
\* the write of the history failed, a log one entry longer than the one it
\* found; a history file that is missing or cannot be read is an empty
\* log and the run goes on.
C28_FirstRun ==
    /\ (/\ IsCategory
         /\ proc.start.csv.state # "complete"
         /\ proc.comparison # None) =>
            /\ proc.previous_categories = <<>>
            /\ NewIds = MenuIds(proc.links)
            /\ proc.comparison[1].removed = <<>>
    /\ (/\ CategoryCompleted
         /\ proc.start.csv.state # "complete") =>
            /\ disk.csv.state = "complete"
            /\ ("history" \notin proc.errors
                  /\ proc.start.history.state = "complete"
                  /\ Len(proc.start.history.content) < CategoryHistoryMax)
                  => Len(disk.history.content)
                        = Len(proc.start.history.content) + 1
    /\ (/\ CategoryCompleted
         /\ proc.start.history.state # "complete"
         /\ "history" \notin proc.errors) =>
            /\ disk.history.state = "complete"
            /\ Len(disk.history.content) = 1

====
